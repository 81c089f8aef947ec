CONSTANTS
    a = a
    b = b
    c = c
    head = head
    pinned = pinned
    parser = parser
    grammar = grammar
    Procs = {a, b, c}
    Files = {parser, grammar}
    Revs = {head, pinned}
    Parser = parser
    Wants <- MCWants
    MaxFaults = 2
SPECIFICATION FairSpec
INVARIANTS SourcesWhole
PROPERTIES Installs Arrives
