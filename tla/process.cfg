CONSTANTS
  Conns = {c1, c2}
  MaxErrors = 1
  ChildExits = 2
  MaxTerms = 2
SPECIFICATION FairServerSpec
INVARIANTS ServerTypeOK TicksGoOn OneAccept ClosedBeforeDelete NoOrphan
PROPERTIES Restarted TermEndsAll
