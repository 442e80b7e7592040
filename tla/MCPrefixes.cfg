CONSTANTS
    a = a
    b = b
    c = c
    Clients = {a, b, c}
    Requests = {1, 2, 3}
    Namespaces <- MCNamespaces
    Settings <- All
SPECIFICATION Spec
INVARIANTS
    HearsWhatIsAnnounced
    TracksReached
    ForwardRaised
    RegisteredIsServed
CHECK_DEADLOCK FALSE
