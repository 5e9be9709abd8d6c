\* One market; the IG session is lost once and the connector reconnects.
CONSTANTS
    Markets = {m1}
    Tfs = {1}
    Stamps = {1}
    Prices = {1}
    Volumes = {1}
    BaseTimes = {0}
    MaxTicks = 1
    MaxLosses = 1
    MaxFailures = 0
    None = None
SPECIFICATION Spec
INVARIANT SubscribedOnSession
