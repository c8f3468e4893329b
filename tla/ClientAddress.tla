--------------------------- MODULE ClientAddress ---------------------------
(***************************************************************************)
(* resolve_client_ip: the address a request is counted and audited under.  *)
(*                                                                         *)
(* X-Forwarded-For is a list that every proxy extends on the right with    *)
(* the address that connected to it; what stands left of that is whatever  *)
(* the client sent.                                                        *)
(***************************************************************************)
EXTENDS Integers, Sequences, FiniteSetsExt

CONSTANTS
  Proxies,   \* the addresses in AUTH_TRUSTED_PROXY_IPS
  Malformed  \* a list element that is empty or no address

\* Fault: the first address of the list.
ForwardedForLeftmost(fwd, direct) == fwd[1]

\* _resolve_forwarded_for_client_ip: the scan from the right ends at the first
\* element that is not a trusted proxy; when all are, the leftmost one is taken.
ForwardedFor(fwd, direct) ==
  LET stops == {i \in DOMAIN fwd : fwd[i] = Malformed \/ fwd[i] \notin Proxies}
  IN CASE stops = {} -> fwd[1]
       [] stops # {} /\ fwd[Max(stops)] = Malformed -> direct
       [] OTHER -> fwd[Max(stops)]

ResolveClientIp(direct, fwd) ==
  IF direct \notin Proxies \/ fwd = <<>> THEN direct ELSE ForwardedFor(fwd, direct)

-----------------------------------------------------------------------------
(* A request of client c that reaches the server through the proxies of    *)
(* hops, with the header sent that the client made up.                     *)

PeerOf(c, hops) == IF hops = <<>> THEN c ELSE hops[Len(hops)]

HeaderOf(c, hops, sent) ==
  IF hops = <<>> THEN sent ELSE sent \o <<c>> \o SubSeq(hops, 1, Len(hops) - 1)
=============================================================================
