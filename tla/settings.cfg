SPECIFICATION SettingsSpec
CONSTANTS
    Keys = {"STORAGE_ENABLED", "OIDC_ENABLED", "LOCAL_AUTH_MAX_ATTEMPTS", "OIDC_CLIENT_SECRET"}
    Admins = {a1, a2}
    MaxEvents = 3
INVARIANTS
    SettingsTypeOK
    EffectiveIsRunning
    BootSurvives
PROPERTIES
    SavedTakesEffect
CHECK_DEADLOCK FALSE
