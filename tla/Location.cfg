\* A usual site, one that lacks what is sought, one that offers only names alike, a slow one, shared menus, no menus.
CONSTANTS
    PartOf <- MCPartOf
    Maps = {"google_maps", "scripted", "unknown_map"}
    Cases <- MCCases
SPECIFICATION Spec
\* The selection ends.
CHECK_DEADLOCK FALSE
INVARIANTS
    EnteredAsAsked
    GivesUpLast
    MenusConsistent
