\* Two threads and two elections, set three times.
SPECIFICATION ApiSpec
CONSTANTS
  Threads = {t1, t2}
  Elections = {e1, e2}
  NoEncryptor = null
  MaxWrites = 4
INVARIANTS ApiTypeOK NullOnlyWhileUnset
