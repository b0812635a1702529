\* One browser: its player logs in and out, writes a synopsis and looks it up; restarts at any time. And the calendars of summer courses.
SPECIFICATION MCSpec
CONSTANTS
  Browsers = {b1}
  Subs = {sub}
  Names = {ann, bob}
  Passwords = {secret}
  UserIds = {u1, u2}
  NULL = NULL
  NoPassword = NoPassword
  Requests = {r1}
  MaxAttempts = 1
  Verbs = {"full", "depo", "oida"}
  Oida = {"oida"}
  Lacking <- VerbForms
  Blank = Blank
  Foreign = Foreign
  Papers = {p1}
  Drafts <- Synopses
  Courses <- Summers
SYMMETRY Alike
CHECK_DEADLOCK FALSE
INVARIANTS AxumTypeOK LoggedInAsSelf SavesGoThrough ResultsHold KeptForUser ClassesOnWorkdays NoDateMissing
