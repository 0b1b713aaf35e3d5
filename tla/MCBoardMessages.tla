-------------------------- MODULE MCBoardMessages --------------------------
(***************************************************************************)
(* A small instance of BoardMessages for TLC.  Two admins run the command  *)
(* at once, with and without the roles, where no embed is kept.  Two       *)
(* coroutines work at once on the deposit guide, in a guild that has only  *)
(* what the setup made, and on a dispute's embed; one on the withdraw      *)
(* guide and the roster.  What an operator made is open to everyone, or    *)
(* hidden from all but the admins, the bot included.                       *)
(***************************************************************************)
EXTENDS BoardMessages

NoEmbed == {"audit_log", "cashier_alerts", "deposit"}

MCAdmins(k) == IF k \in NoEmbed THEN {"a1", "a2"} ELSE {"a1"}
MCRolesGiven(k) == IF k \in NoEmbed THEN {{}, {"admin"}, StaffRoles} ELSE {StaffRoles}
MCTasks(k) ==
  CASE k \in NoEmbed -> {} [] k \in {"how_to_deposit", "disputes"} -> {"t1", "t2"} [] OTHER -> {"t1"}

Open == [r \in Roles |-> Inherit]
Closed == [Open EXCEPT !["everyone"] = Hidden, !["admin"] = Full]

MCOperatorOverwrites(k) == IF k = "how_to_deposit" THEN {} ELSE {Open, Closed}

=============================================================================
