----------------------------- MODULE MCSnmpScan -----------------------------
(* Small instances of SnmpScan. *)
EXTENDS SnmpScan
CONSTANTS h1, h2, public
AllTargets == [j \in Jobs |-> Hosts]
MCCommunity == [j \in Jobs |-> public]

\* h1 knows the community and lacks sysName; h2 listens under another one.
Values == Str(TRUE, "sysDescr") :> Text(Str(FALSE, "router"))
          @@ Str(FALSE, "sysObjectID") :> Text(Str(TRUE, "ciscoProducts"))
          @@ Str(TRUE, "sysUpTime") :> Number(Word + 1)
MCDevice == [h \in Hosts |->
               IF h = h1 THEN [community |-> public, values |-> Values, answers |-> Answers]
                         ELSE [community |-> "private", values |-> Values, answers |-> {"values"}]]
=============================================================================
