\* ratelimit.go:21 against two goroutines of one address.
CONSTANTS
    g1 = g1
    g2 = g2
    g3 = g3
    a1 = a1
    l1 = l1
    l2 = l2
    l3 = l3
    l4 = l4
    NULL = NULL
    Goroutine = {g1, g2}
    Address = {a1}
    Limiter = {l1, l2, l3, l4}
    Burst = 2
    Rate = 1
    IdleTimeout = 3
    MaxStall = 1
    MaxClock = 1
SPECIFICATION Spec
INVARIANT SafeForConcurrentUse
