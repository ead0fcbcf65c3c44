\* Up to five latencies of three values in up to three objects, and every request
\* of up to two parameters in its query and its form.
SPECIFICATION DataSpec
CONSTANTS
  Latencies <- ThreeLatencies
  Millisecond = 2
  MaxLatencies = 5
  MaxObjects = 3
  Names <- SomeNames
  Values <- SomeValues
  OAuthParams <- TwoOAuthParams
  Prefix <- Post
  MaxParams = 2
INVARIANTS
  PercentilesAgree
  DeviationWithinAMillisecond
  SignsEveryParameter
  SignedInOrder
CHECK_DEADLOCK FALSE
