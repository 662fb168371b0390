------------------------------ MODULE MCHelpers ------------------------------
(***************************************************************************)
(* The helper side of voting, a component at a time: `part` says which one *)
(* a behaviour is about, and the state of the others stays off.            *)
(***************************************************************************)
EXTENDS HelperClient, SharePlacement, HelperPreflight, ShareTrackingDrive, ShareLedger,
        StatusPoll, VoteCompletion, ShareDesignation

CONSTANTS r1, r2   \* the helper client's requests

VARIABLE part

Parts == {"client", "placement", "preflight", "drive", "ledger", "poll", "completion",
          "designation"}

\* The other components wait in one of their initial states.
HelpersInit ==
  /\ part \in Parts
  /\ ClientInit /\ PlacementInit /\ PreflightInit /\ LedgerInit /\ DesignationInit
  /\ DriveInit /\ (part # "drive" => scenario = CHOOSE s \in Scenarios : TRUE)
  /\ PollInit
  /\ part # "poll" => /\ poll.fleet = CHOOSE f \in PollFleets : TRUE
                      /\ shareRow = CHOOSE r \in Rows : r.gen # "none"
  /\ CompletionInit /\ (part # "completion" => unit.kind = "standalone")

allVars == <<part, clientVars, batch, race, driveVars, ledgerVars, pollVars, completionVars,
             designationVars>>

HelpersNext ==
  /\ UNCHANGED part
  /\ \/ /\ part = "client" /\ ClientNext
        /\ UNCHANGED <<batch, race, driveVars, ledgerVars, pollVars, completionVars,
                       designationVars>>
     \/ /\ part = "placement" /\ PlacementNext
        /\ UNCHANGED <<clientVars, race, driveVars, ledgerVars, pollVars, completionVars,
                       designationVars>>
     \/ /\ part = "preflight" /\ PreflightNext
        /\ UNCHANGED <<clientVars, batch, driveVars, ledgerVars, pollVars, completionVars,
                       designationVars>>
     \/ /\ part = "drive" /\ DriveNext
        /\ UNCHANGED <<clientVars, batch, race, ledgerVars, pollVars, completionVars,
                       designationVars>>
     \/ /\ part = "ledger" /\ LedgerNext
        /\ UNCHANGED <<clientVars, batch, race, driveVars, pollVars, completionVars,
                       designationVars>>
     \/ /\ part = "poll" /\ PollNext
        /\ UNCHANGED <<clientVars, batch, race, driveVars, ledgerVars, completionVars,
                       designationVars>>
     \/ /\ part = "completion" /\ CompletionNext
        /\ UNCHANGED <<clientVars, batch, race, driveVars, ledgerVars, pollVars, designationVars>>
     \/ /\ part = "designation" /\ DesignationNext
        /\ UNCHANGED <<clientVars, batch, race, driveVars, ledgerVars, pollVars, completionVars>>

HelpersSpec == HelpersInit /\ [][HelpersNext]_allVars

\* Every component's state has its shape in every state it reaches.
HelperTypes == /\ ClientTypes /\ PlacementTypes /\ PreflightTypes /\ DriveTypes
               /\ PollTypes /\ CompletionTypes /\ DesignationTypes

-----------------------------------------------------------------------------
(* The instances.                                                          *)

MCOpsOf == (r1 :> {"submit"} @@ r2 :> {"status", "resubmit"})
MCRetryDelays == <<1>>

MCTiming == [grace |-> 1, minOverdue |-> 2, maxOverdue |-> 3, cutoff |-> 1, readyPoll |-> 2,
             futureMax |-> 3, minDelay |-> 1]

MCVoteWindows == {<<4, 4>>, <<0, 3>>, <<0, 10>>, <<2, 30>>}

MCFleetLists == {<<>>, <<"a">>, <<"a", "b">>, <<"a", "A">>, <<"a", "x">>, <<"a", "b", "c">>,
                 <<"c", "a", "b", "d">>}
MCIdentityOf == [a |-> "a", A |-> "a", b |-> "b", c |-> "c", d |-> "d", x |-> "bad"]

TrackedRow(at, short, material) ==
  [created |-> 0, submit |-> at, confirmed |-> FALSE, short |-> short, material |-> material]

\* A round with a share far ahead; one whose short share can still be resent, under a
\* budget and a failing pass; and one at the end of voting that two runs contend for.
MCScenarios ==
  {[rows |-> <<TrackedRow(0, FALSE, TRUE), TrackedRow(10, FALSE, FALSE)>>, at |-> 0,
    runs |-> {"A"}, start |-> 1, budgets |-> {NoSeconds}, faults |-> 0],
   [rows |-> <<TrackedRow(0, TRUE, TRUE), TrackedRow(7, FALSE, FALSE)>>, at |-> 9,
    runs |-> {"A"}, start |-> 9, budgets |-> {NoSeconds, 0, 2}, faults |-> 2],
   [rows |-> <<TrackedRow(0, TRUE, TRUE), [TrackedRow(7, FALSE, FALSE) EXCEPT !.confirmed = TRUE]>>,
    at |-> 11, runs |-> {"A", "B"}, start |-> 12, budgets |-> {NoSeconds}, faults |-> 0]}

MCPollFleets == {<<>>, <<"a">>, <<"a", "b">>, <<"a", "b", "c">>}

MCTargetOf == <<2, 1>>
=============================================================================
