CONSTANTS
  ULLONG_MAX = 255
  HTTP_MAX_HEADER_SIZE = 120
  SKIPBODY = FALSE
  MAX_NESTING = 3
  Pieces = {1, 2, 5}
  Streams <- StreamSet
  HTTP_BUFFER_SIZE = 207
  MAX_RESPONSE = 250
SPECIFICATION Spec
INVARIANTS SplitIndependent HeaderCounted Understood UrlsFound AnswerMeans
