\* Two clients announce one namespace.  Three more cases: two requests of one kind at
\* one prefix (Settings <- Twins, INVARIANT KindsDoNotShare), a client that hears of its
\* own namespace (Settings <- Self, INVARIANT NeverToldItsOwn), an update beside a
\* subscription of the other kind (Settings <- Beside, INVARIANT UpdateTakesEffect).
CONSTANTS
    a = a
    b = b
    c = c
    Clients = {a, b, c}
    Requests = {1, 2, 3}
    Namespaces <- MCNamespaces
    Settings <- Shared
SPECIFICATION Spec
INVARIANT NoDoneWhileServed
CHECK_DEADLOCK FALSE
