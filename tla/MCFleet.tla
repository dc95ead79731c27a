------------------------------ MODULE MCFleet -------------------------------
(***************************************************************************)
(* The instances of Fleet that TLC explores.  No statement reads the row   *)
(* of one proxy to write that of another, so one proxy shows every         *)
(* interleaving of the writers of a row; two show that the jobs of a batch *)
(* do not get in each other's way.                                         *)
(***************************************************************************)
EXTENDS Fleet, TLC

\* One report of each kind the columns of NodeStore tell apart: a full
\* success, a failure, an invalid config, and no free port to test through.
AllProbes ==
  {Append(Passed, Event("DOWNLOAD", "SUCCESS", FALSE)),
   << Event("DNS_TCP", "TCP_TIMEOUT", FALSE) >>,
   << Event("STATIC", "INVALID_CONFIG", FALSE) >>,
   << Event("RELAY", "LOCAL_OVERLOAD", FALSE) >>}

\* The last event of two of them, for the runs with two proxies.
TwoProbes ==
  {<< Event("DOWNLOAD", "SUCCESS", FALSE) >>,
   << Event("RELAY", "LOCAL_OVERLOAD", FALSE) >>}

\* The proxies are interchangeable.
Alike == Permutations(Nodes)
=============================================================================
