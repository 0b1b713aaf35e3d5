SPECIFICATION FairSpec
CONSTANTS
  Keys = {"how_to_deposit", "how_to_withdraw", "online_cashiers", "disputes", "audit_log", "cashier_alerts", "deposit"}
  Admins <- MCAdmins
  RolesGiven <- MCRolesGiven
  OperatorOverwrites <- MCOperatorOverwrites
  Tasks <- MCTasks
  MaxIds = 5
  MaxSetups = 2
  MaxDeletions = 1
  MaxFaults = 1
  MaxMessages = 3
  MaxContent = 2
  MaxOverlaps = 1
INVARIANT NoDuplicates
INVARIANT SetupHealsConfig
INVARIANT DeliveredIsShown
INVARIANT OrphansHaveCause
PROPERTY RosterCatchesUp
CHECK_DEADLOCK FALSE
