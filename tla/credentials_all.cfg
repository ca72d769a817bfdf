SPECIFICATION CredentialsSpec
CONSTANTS
    Worker = {t1, t2}
    MaxSecret = 3
    TokenTTL = 2
    MaxRenewals = 2
PROPERTIES CutOff DecisionsStand
