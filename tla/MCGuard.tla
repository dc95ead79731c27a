------------------------------ MODULE MCGuard -------------------------------
(***************************************************************************)
(* The instances of Guard that TLC explores.                               *)
(***************************************************************************)
EXTENDS Guard, TLC

CONSTANTS p1, p2, p3

From(source, protocol, server) ==
  [source |-> source, protocol |-> protocol, server |-> server]

\* Three proxies, as few as an incident takes: the first two share all three
\* dimensions, the third is on another server of the same source.
MCOrigin == (p1 :> From("a", "vless", "x")) @@ (p2 :> From("a", "vless", "x"))
              @@ (p3 :> From("a", "vless", "y"))

\* Reports that succeed with and without a download, that are the proxy's fault,
\* the network's and nobody's, and an invalid configuration.
MCKinds ==
  {Passed, Append(Passed, Event("DOWNLOAD", "SUCCESS", TRUE)),
   << Event("STATIC", "INVALID_CONFIG", FALSE) >>,
   << Event("DNS_TCP", "TCP_TIMEOUT", FALSE) >>,
   << Event("RELAY", "LOCAL_OVERLOAD", FALSE) >>}

\* Limits that three proxies can reach, and one that 0.7 takes down in steps.
MCLeast == [pool \in Pools |-> IF pool = "xray" THEN 3 ELSE 1]
MCMost  == [pool \in Pools |-> IF pool = "xray" THEN 4 ELSE 3]
=============================================================================
