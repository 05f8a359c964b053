\* One admin thread issuing /calico/configure and /calico/shutdown in any
\* order, while the nodes are powered off and on.
CONSTANTS
    n1 = n1
    n2 = n2
    n3 = n3
    a1 = a1
    a2 = a2
    NodeNames = {n1, n2, n3}
    NodeType <- MCNodeType
    Admins = {a1}

SPECIFICATION OvSpec
INVARIANT OvTypeOK
PROPERTY ReplyMatchesOverlay
