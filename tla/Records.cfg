SPECIFICATION Spec
CONSTANTS
  t1 = t1
  t2 = t2
  t3 = t3
  d1 = d1
  d2 = d2
  c1 = c1
  x = x
  NULL = NULL
  Txn <- MCTxn
  Dlg <- MCDlg
  Call <- MCCall
  Names <- MCNames
  ToTags <- MCToTags
  MaxName = 1
  TxnRoom = 2
  DlgRoom = 2
SYMMETRY Symmetry
INVARIANTS
  TypeOK
  ListsWellFormed
  TablesExact
  NamesFound
PROPERTIES
  ImplementsGraph
