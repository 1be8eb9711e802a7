SPECIFICATION Spec
CONSTANTS
  tab1 = tab1
  tab2 = tab2
  tab3 = tab3
  Users = {"ann", "bob"}
  Conns = {tab1, tab2, tab3}
  UserOf <- MCUserOf
  MaxCommands = 2
  MaxTrouble = 2
  MaxBusy = 2
SYMMETRY Alike
INVARIANTS
  ShownIsCurrent
  AnsweredOnce
CHECK_DEADLOCK FALSE
