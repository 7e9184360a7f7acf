SPECIFICATION Spec
CONSTANTS
  Letters = {"a"}
  Emojis <- MCEmojis
  ResultLimit = 2
  MaxProfiles = 1
  MaxEdits = 4
  MaxFetches = 1
  MaxInserts = 1
INVARIANTS
  PickOrSend
  MenuCurrent
PROPERTIES
  ChoiceReplacesTrigger
