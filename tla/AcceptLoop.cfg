CONSTANTS
  Clients = {c1, c2, c3}
  Backlog = 2
  max_conn = 2
  Period = 2
  Builds = {"linux", "freebsd", "openbsd"}
SPECIFICATION Spec
INVARIANTS RateBound StopsPromptly
PROPERTIES Accepted Stops
