\* One name at both issuers, two addresses, two browsers.
SPECIFICATION Spec
CONSTANTS
  Browsers = {b1, b2}
  Subs = {sub}
  Names = {ann, bob}
  Passwords = {secret}
  UserIds = {u1, u2, u3}
  NULL = NULL
  NoPassword = NoPassword
  Requests = {r1, r2}
  MaxAttempts = 2
SYMMETRY Alike
CHECK_DEADLOCK FALSE
INVARIANTS TypeOK LoggedInAsSelf SameAccount
