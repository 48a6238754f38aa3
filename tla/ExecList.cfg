SPECIFICATION Spec
CONSTANTS
    n1 = n1
    n2 = n2
    n3 = n3
    l1 = l1
    l2 = l2
    NULL = NULL
    Node <- MCNode
    List <- MCList
    pri <- MCPri
INVARIANTS TypeOK LinkInv WalksAgree
PROPERTY ImplementsPriorityLists
CHECK_DEADLOCK FALSE
