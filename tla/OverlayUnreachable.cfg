\* One admin thread; a slave may be powered off when /calico/configure
\* reaches it.
CONSTANTS
    n1 = n1
    n2 = n2
    n3 = n3
    a1 = a1
    a2 = a2
    NodeNames = {n1, n2, n3}
    NodeType <- MCNodeType
    Admins = {a1}

SPECIFICATION OvSpec
PROPERTY ConfigureSparesReachable
