SPECIFICATION CredentialsSpec
CONSTANTS
    Worker = {t1, t2}
    MaxSecret = 2
    TokenTTL = 1
    MaxRenewals = 1
PROPERTY ResetKept
