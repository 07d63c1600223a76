SPECIFICATION Spec
CONSTANTS
  Client = {c1, c2}
  Item = {e1, e2}
  MaxItems = 3
  Nothing = Nothing
INVARIANTS TypeOK ListsAgree
PROPERTIES ImplementsFeed
