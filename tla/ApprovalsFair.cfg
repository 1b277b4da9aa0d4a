SPECIFICATION FairSpec
CONSTANTS
  Ids = {a1}
  Voters = {v1}
  Founders = {v1}
  Handlers = {h1, h2}
  FailOpen = FALSE
  NoOne = NoOne
PROPERTY Expires
PROPERTY Answered
