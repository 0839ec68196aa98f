SPECIFICATION FairSpec
CONSTANTS
  Main = main
  Loops = {l1}
  Forces = {f1}
  Renewal = renewal
  Nobody = nobody
  Dead = deadHolder
  MaxToken = 2
  MaxFetch = 2
  MaxConn = 2
  MaxNet = 2
  MaxShort = 2
  MaxCaptcha = 1
  MaxStarts = 1
  Faults = {{"refuse","drop"},
            {"drop","renew"},
            {"api","net"},
            {"session","db"},
            {"captcha"},
            {"chat"},
            {"restart","drop"},
            {"timeout","risk","drop"},
            {"cooldown","expired"},
            {"switch","unread","drop"},
            {"db","drop"},
            {"conn"},
            {"redis"}}
INVARIANTS TypeOK NoWastedRequest LiveTokenCurrent StartupTokenOnce
PROPERTY Recovers
CHECK_DEADLOCK FALSE
