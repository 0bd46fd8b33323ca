------------------------------ MODULE MCSignup ------------------------------
EXTENDS Signup

CONSTANTS a1, a2, t1
MCAliases == {a1, a2}
MCTokens == {t1}

Config(kind, fallback, external, faults) ==
    [kind |-> kind, fallback |-> fallback, external |-> external, faults |-> faults]

SignupConfigs ==
    {Config("protocol", fallback, external, {"start", "death", "lease", "db"}) :
        fallback \in BOOLEAN, external \in BOOLEAN}
    \cup {Config(kind, TRUE, FALSE, faults) :
        kind \in {"browser", "protocol"},
        faults \in {{}, {"death", "lease"}, {"start", "death", "lease"}, {"cdp"}, {"db"}}}
    \cup {Config("browser", TRUE, FALSE, faults) : faults \in {{"upload"}, {"storage", "death"}}}
    \cup {Config("reactivate", TRUE, FALSE, faults) :
        faults \in {{}, {"start", "death"}, {"cdp"}}}

FallbackConfigs == {Config("protocol", TRUE, FALSE, {})}
=============================================================================
