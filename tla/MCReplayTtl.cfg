CONSTANTS
  Orgs = {o1, o2}
  Nonces = {n1}
  Window = 2
  MaxSkew = 2
  MaxTime = 7
  FailOpen = FALSE
SPECIFICATION Spec
INVARIANT NonceNotReusedWhileValid
