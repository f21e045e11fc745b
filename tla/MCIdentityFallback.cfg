CONSTANTS
  RegTokens = {"r"}
  JWTs <- MCJWTs
  Handlers = {"h1", "h2"}
  MaxRotations = 1
  MaxFaults = 1
  MaxRestarts = 1
SPECIFICATION Spec
INVARIANT FallbackUsable
CHECK_DEADLOCK FALSE
