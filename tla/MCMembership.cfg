CONSTANTS
  a = a
  b = b
  chat = chat
  Handlers = {h1, h2}
  Keys = {k1}
  Subs <- MCSubs
  Founders <- MCFounders
  Tokens <- MCTokens
  Chats = {chat}
  Locales = {"it"}
  Posts <- MCPosts
  MaxRequests = 4
  MaxFaults = 1
SPECIFICATION Spec
SYMMETRY MCSymmetry
CHECK_DEADLOCK FALSE
INVARIANTS TypeOK OrphanNeedsOverlap ErrorsHaveCause
PROPERTIES PostKeepsRest
