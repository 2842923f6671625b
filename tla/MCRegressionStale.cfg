SPECIFICATION FairSpec
CONSTANTS
  Tests = {t1}
  Logs <- MCLogs
  NoLog = "no log"
  Verdict <- MCVerdict

PROPERTY ReportsLog
