SPECIFICATION Spec
CONSTANTS
  Items = {1, 2}
  Parents = {1}
  Href <- MCHref
  MaxClicks = 4
  Tags <- MCTags
  Typed = {"work", "fun", "new", "new_quote", "long"}
  TooLong = {"long"}
  Parsed <- MCParsed
  MaxOptions = 4
INVARIANTS
  DialogsMatchClass
  SelectionConsistent
  NoSelectionWhileTyping
  WidgetsTruthful
PROPERTIES
  FocusReturns
CHECK_DEADLOCK FALSE
