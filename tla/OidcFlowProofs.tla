--------------------------- MODULE OidcFlowProofs ---------------------------
(* Proofs about OidcFlow: the properties hold for any numbers of browsers,  *)
(* flows, sessions and requests and for any settings.  Each lemma first     *)
(* states what its action changes and then treats the parts of IInv.        *)
EXTENDS OidcFlow, TLAPS

\* The initial state satisfies the invariant.
LEMMA InitInv == Init => IInv
BY OidcAssumption
DEF Init, IInv, TypeOK, OpenedInv, ProofsInv, CookiesInv, SessionCalls, FlowCalls, ConsumerInv,
    RedeemedCalls, DeleteCalls, ErasuresInv, OneSessionPerFlow, OwnFlowsOnly, ProofIsOwn,
    Consuming, Used, Deleted, NoErasure, IdleCall,
    Flow, Session, Erasure, Call, Answer, Time

\* The record updates of the actions.
Consumed(c) == [c EXCEPT !.step = "consumed", !.clock = 0]
Redeemed(c, a) == [c EXCEPT !.step = "redeemed", !.answer = a]
Marked(g, v) == [g EXCEPT !.status = v]
Proved(x, a) == [x EXCEPT !.proof = a]

\* What they keep.
LEMMA RecordFields ==
  /\ IdleCall \in Call
  /\ \A c \in Call :
       /\ Consumed(c) \in Call /\ Consumed(c).step = "consumed"
       /\ Consumed(c).flow = c.flow /\ Consumed(c).browser = c.browser
       /\ Consumed(c).session = c.session
  /\ \A c \in Call, a \in Answer :
       /\ Redeemed(c, a) \in Call /\ Redeemed(c, a).step = "redeemed"
       /\ Redeemed(c, a).flow = c.flow /\ Redeemed(c, a).browser = c.browser
       /\ Redeemed(c, a).session = c.session /\ Redeemed(c, a).answer = a
  /\ \A g \in Flow, v \in {"consumed", "pruned"} :
       /\ Marked(g, v) \in Flow /\ Marked(g, v).status = v
       /\ Marked(g, v).purpose = g.purpose /\ Marked(g, v).browser = g.browser
       /\ Marked(g, v).session = g.session
  /\ \A x \in Session :
       /\ Revoked(x) \in Session /\ ~Revoked(x).live /\ Revoked(x).user = x.user
       /\ Revoked(x).opened = x.opened /\ Revoked(x).proof = x.proof
  /\ \A x \in Session, a \in Answer :
       /\ Proved(x, a) \in Session /\ Proved(x, a).live = x.live
       /\ Proved(x, a).user = x.user /\ Proved(x, a).opened = x.opened
       /\ Proved(x, a).proof = a
<1>0. 0 \in Time
  BY OidcAssumption DEF Time
<1>1. IdleCall \in Call
  BY <1>0 DEF IdleCall, Call
<1>2. ASSUME NEW c \in Call PROVE /\ Consumed(c) \in Call /\ Consumed(c).step = "consumed"
                                  /\ Consumed(c).flow = c.flow /\ Consumed(c).browser = c.browser
                                  /\ Consumed(c).session = c.session
  BY <1>0 DEF Consumed, Call
<1>3. ASSUME NEW c \in Call, NEW a \in Answer
      PROVE  /\ Redeemed(c, a) \in Call /\ Redeemed(c, a).step = "redeemed"
             /\ Redeemed(c, a).flow = c.flow /\ Redeemed(c, a).browser = c.browser
             /\ Redeemed(c, a).session = c.session /\ Redeemed(c, a).answer = a
  BY DEF Redeemed, Call
<1>4. ASSUME NEW g \in Flow, NEW v \in {"consumed", "pruned"}
      PROVE  /\ Marked(g, v) \in Flow /\ Marked(g, v).status = v
             /\ Marked(g, v).purpose = g.purpose /\ Marked(g, v).browser = g.browser
             /\ Marked(g, v).session = g.session
  BY DEF Marked, Flow
<1>5. ASSUME NEW x \in Session
      PROVE  /\ Revoked(x) \in Session /\ ~Revoked(x).live /\ Revoked(x).user = x.user
             /\ Revoked(x).opened = x.opened /\ Revoked(x).proof = x.proof
  BY DEF Revoked, Session
<1>6. ASSUME NEW x \in Session, NEW a \in Answer
      PROVE  /\ Proved(x, a) \in Session /\ Proved(x, a).live = x.live
             /\ Proved(x, a).user = x.user /\ Proved(x, a).opened = x.opened
             /\ Proved(x, a).proof = a
  BY DEF Proved, Session
<1> QED  BY <1>1, <1>2, <1>3, <1>4, <1>5, <1>6

\* What keeps the consumers of a flow apart.
LEMMA ConsumersKept ==
  ASSUME ConsumerInv, FlowCalls, Consuming' \subseteq Consuming,
         \A q \in Consuming' : call'[q].flow = call[q].flow,
         \A f \in Flows : flow[f].status \in {"consumed", "pruned"} =>
                            flow'[f].status \in {"consumed", "pruned"},
         \A q \in Consuming', s \in Sessions : sessions'[s].opened # call[q].flow
  PROVE  ConsumerInv'
<1> SUFFICES ASSUME NEW q \in Consuming'
             PROVE  /\ flow'[call'[q].flow].status \in {"consumed", "pruned"}
                    /\ \A s \in Sessions : sessions'[s].opened # call'[q].flow
                    /\ \A q2 \in Consuming' : call'[q2].flow = call'[q].flow => q2 = q
  BY DEF ConsumerInv
<1>1. q \in Consuming /\ call'[q].flow = call[q].flow /\ call[q].flow \in Flows
  BY DEF FlowCalls, Consuming
<1> QED  BY <1>1 DEF ConsumerInv

\* StartLogin preserves the invariant.
LEMMA StartLoginInv ==
  ASSUME IInv, NEW b \in Browsers, NEW f \in Flows, StartLogin(b, f)
  PROVE  IInv'
<1> USE OidcAssumption DEF IInv, StartLogin, Started, rows, cookies, IdleCall, NoErasure
<1>1. TypeOK'
  BY DEF TypeOK, Flow, Call, Answer, Time
<1>2. OpenedInv'
  BY DEF OpenedInv, Used
<1>3. ProofsInv'
  BY DEF ProofsInv, ProofOf
<1>4. CookiesInv'
  BY DEF CookiesInv, Used, TypeOK
<1>5. SessionCalls'
  BY DEF SessionCalls, Used
<1>6. FlowCalls'
  BY DEF FlowCalls
<1>7. ConsumerInv'
  BY DEF ConsumerInv, Consuming
<1>8. RedeemedCalls'
  BY DEF RedeemedCalls
<1>9. DeleteCalls'
  BY DEF DeleteCalls, ProofOf
<1>10. ErasuresInv'
  BY DEF ErasuresInv, Deleted, ProofOf
<1>11. OneSessionPerFlow'
  BY DEF OneSessionPerFlow
<1>12. OwnFlowsOnly'
  BY DEF OwnFlowsOnly, OpenedInv, Used, TypeOK
<1>13. ProofIsOwn'
  BY DEF ProofIsOwn, ProofsInv, Used, ProofOf
<1> QED  BY <1>1, <1>2, <1>3, <1>4, <1>5, <1>6, <1>7, <1>8, <1>9, <1>10, <1>11, <1>12, <1>13

\* StartReauth preserves the invariant.
LEMMA StartReauthInv ==
  ASSUME IInv, NEW b \in Browsers, NEW f \in Flows, StartReauth(b, f)
  PROVE  IInv'
<1> USE OidcAssumption DEF IInv
<1>1. /\ flow' \in [Flows -> Flow] /\ flow'[f].status = "open" /\ flow'[f].browser = b
      /\ flow[f].status = "unused" /\ \A g \in Flows : g # f => flow'[g] = flow[g]
  BY DEF StartReauth, Started, Current, TypeOK, Flow, Time
<1>2. binding' = binding \cup {<<b, f>>} /\ UNCHANGED <<now, sessions, owner, erased, jar, call>>
  BY DEF StartReauth, Started, Current, TypeOK
<1>3. TypeOK'
  BY <1>1, <1>2
  DEF TypeOK
<1>4. OpenedInv'
  BY <1>1, <1>2
  DEF OpenedInv, Used
<1>5. ProofsInv'
  BY <1>1, <1>2
  DEF ProofsInv, ProofOf, TypeOK, Session, Answer
<1>6. CookiesInv'
  BY <1>1, <1>2
  DEF CookiesInv, Used
<1>7. SessionCalls'
  BY <1>1, <1>2
  DEF SessionCalls, Used
<1>8. FlowCalls'
  BY <1>1, <1>2
  DEF FlowCalls
<1>9. ConsumerInv'
  BY <1>1, <1>2
  DEF ConsumerInv, FlowCalls, Consuming, Used, Acceptable
<1>10. RedeemedCalls'
  BY <1>1, <1>2
  DEF RedeemedCalls
<1>11. DeleteCalls'
  BY <1>1, <1>2
  DEF DeleteCalls, ProofsInv, ProofOf, TypeOK, Call, Answer
<1>12. ErasuresInv'
  BY <1>1, <1>2
  DEF ErasuresInv, Deleted, ProofOf, AuthTime, TypeOK, Erasure, Answer
<1>13. OneSessionPerFlow'
  BY <1>1, <1>2
  DEF OneSessionPerFlow
<1>14. OwnFlowsOnly'
  BY <1>1, <1>2
  DEF OwnFlowsOnly, CookiesInv, OpenedInv, Used, TypeOK
<1>15. ProofIsOwn'
  <2>1. \A s \in Sessions : sessions[s].proof # NoAnswer =>
          sessions[s].proof.flow \in Flows /\ sessions[s].proof.flow # f
    BY <1>1, <1>2 DEF ProofsInv, ProofOf, TypeOK, Session, Answer
  <2> QED  BY <1>1, <1>2, <2>1 DEF ProofIsOwn
<1> QED  BY <1>3, <1>4, <1>5, <1>6, <1>7, <1>8, <1>9, <1>10, <1>11, <1>12, <1>13, <1>14, <1>15

\* Open preserves the invariant.
LEMMA OpenInv ==
  ASSUME IInv, NEW r \in Reqs, NEW b \in Browsers, NEW f \in Flows, NEW ok \in BOOLEAN,
         Open(r, b, f, ok)
  PROVE  IInv'
<1> USE OidcAssumption DEF IInv, Open, Bound, Current, rows, cookies, IdleCall, NoErasure
<1>1. TypeOK'
  BY DEF TypeOK, Call, Answer, Time
<1>2. OpenedInv'
  BY DEF OpenedInv, Used
<1>3. ProofsInv'
  BY DEF ProofsInv, ProofOf
<1>4. CookiesInv'
  BY DEF CookiesInv, Used
<1>5. SessionCalls'
  BY DEF SessionCalls, CookiesInv, Used
<1>6. FlowCalls'
  BY DEF FlowCalls, CookiesInv
<1>7. ConsumerInv'
  BY DEF ConsumerInv, Consuming
<1>8. RedeemedCalls'
  BY DEF RedeemedCalls
<1>9. DeleteCalls'
  BY DEF DeleteCalls, ProofOf
<1>10. ErasuresInv'
  BY DEF ErasuresInv, Deleted, ProofOf
<1>11. OneSessionPerFlow'
  BY DEF OneSessionPerFlow
<1>12. OwnFlowsOnly'
  BY DEF OwnFlowsOnly
<1>13. ProofIsOwn'
  BY DEF ProofIsOwn
<1> QED  BY <1>1, <1>2, <1>3, <1>4, <1>5, <1>6, <1>7, <1>8, <1>9, <1>10, <1>11, <1>12, <1>13

\* Consume preserves the invariant.
LEMMA ConsumeInv ==
  ASSUME IInv, NEW r \in Reqs, Consume(r)
  PROVE  IInv'
<1> USE OidcAssumption DEF IInv
<1>1. call[r].flow \in Flows /\ flow[call[r].flow] \in Flow /\ call[r] \in Call
  BY DEF Consume, Fail, Respond, FlowCalls, TypeOK
<1>2. /\ flow' \in [Flows -> Flow]
      /\ \A f \in Flows : /\ flow'[f].purpose = flow[f].purpose
                          /\ flow'[f].browser = flow[f].browser
                          /\ flow'[f].session = flow[f].session
      /\ \A f \in Flows : flow'[f].status =
             IF f = call[r].flow /\ Acceptable(f, call[r].clock) THEN "consumed" ELSE flow[f].status
  <2>1. CASE Acceptable(call[r].flow, call[r].clock)
    <3>1. flow' = [flow EXCEPT ![call[r].flow] = Marked(flow[call[r].flow], "consumed")]
      BY <2>1 DEF Consume, Marked
    <3> QED  BY <1>1, <2>1, <3>1, RecordFields DEF TypeOK
  <2>2. CASE ~Acceptable(call[r].flow, call[r].clock)
    BY <1>1, <2>2 DEF Consume, TypeOK
  <2> QED  BY <2>1, <2>2
<1>3. \/ call' = [call EXCEPT ![r] = IdleCall]
      \/ /\ Acceptable(call[r].flow, call[r].clock) /\ call[r].step = "callback"
         /\ call' = [call EXCEPT ![r] = Consumed(call[r])]
  BY <1>1
  DEF Consume, Fail, Respond, Consumed
<1>4. call' \in [Reqs -> Call] /\ \A r2 \in Reqs : r2 # r => call'[r2] = call[r2]
  BY <1>1, <1>3, RecordFields DEF TypeOK
<1>5. \/ call'[r] = IdleCall
      \/ /\ Acceptable(call[r].flow, call[r].clock) /\ call[r].step = "callback"
         /\ call'[r].step = "consumed" /\ call'[r].flow = call[r].flow
         /\ call'[r].browser = call[r].browser /\ call'[r].session = call[r].session
  BY <1>1, <1>3, RecordFields DEF TypeOK
<1>6. binding' \subseteq binding /\ UNCHANGED <<now, sessions, owner, erased, jar>>
  BY <1>1
  DEF Consume, Fail, Respond, cookies, TypeOK
<1>7. TypeOK'
  BY <1>1, <1>2, <1>3, <1>4, <1>5, <1>6
  DEF TypeOK
<1>8. OpenedInv'
  BY <1>1, <1>2, <1>3, <1>4, <1>5, <1>6
  DEF OpenedInv, Used
<1>9. ProofsInv'
  BY <1>1, <1>2, <1>3, <1>4, <1>5, <1>6
  DEF ProofsInv, ProofOf, TypeOK, Session, Answer
<1>10. CookiesInv'
  BY <1>1, <1>2, <1>3, <1>4, <1>5, <1>6
  DEF CookiesInv, Used
<1>11. SessionCalls'
  BY <1>1, <1>2, <1>3, <1>4, <1>5, <1>6
  DEF IdleCall, NoErasure, SessionCalls, Used
<1>12. FlowCalls'
  BY <1>1, <1>2, <1>3, <1>4, <1>5, <1>6
  DEF IdleCall, NoErasure, FlowCalls
<1>13. ConsumerInv'
  <2>1. CASE call'[r] = IdleCall
    <3>1. Consuming' \subseteq Consuming /\ \A q \in Consuming' : call'[q].flow = call[q].flow
      BY <1>1, <1>2, <1>3, <1>4, <1>5, <1>6, <2>1 DEF Consuming, IdleCall
    <3> QED  BY <1>1, <1>2, <1>3, <1>4, <1>5, <1>6, <3>1, ConsumersKept DEF ConsumerInv
  <2>2. CASE call'[r] # IdleCall
    <3>1. /\ flow[call[r].flow].status = "open" /\ flow'[call[r].flow].status = "consumed"
          /\ call'[r].flow = call[r].flow
      BY <1>1, <1>2, <1>3, <1>4, <1>5, <1>6, <2>2 DEF Acceptable
    <3>2. \A q \in Consuming' : call'[q].flow = call[q].flow /\ (q = r \/ q \in Consuming)
      BY <1>1, <1>2, <1>3, <1>4, <1>5, <1>6, <3>1 DEF Consuming
    <3>3. \A q \in Consuming : q # r /\ call[q].flow \in Flows /\ call[q].flow # call[r].flow
      BY <1>1, <1>2, <1>3, <1>4, <1>5, <1>6, <3>1, <2>2 DEF ConsumerInv, Consuming, FlowCalls
    <3>4. \A s \in Sessions : sessions[s].opened # call[r].flow
      BY <1>1, <1>2, <1>3, <1>4, <1>5, <1>6, <3>1 DEF OpenedInv
    <3>5. \A q \in Consuming' : /\ flow'[call[q].flow].status \in {"consumed", "pruned"}
                                /\ \A s \in Sessions : sessions[s].opened # call[q].flow
      BY <1>1, <1>2, <1>3, <1>4, <1>5, <1>6, <3>1, <3>2, <3>3, <3>4 DEF ConsumerInv
    <3>6. \A q, q2 \in Consuming' : call[q].flow = call[q2].flow => q = q2
      BY <3>2, <3>3 DEF ConsumerInv
    <3> QED  BY <1>1, <1>2, <1>3, <1>4, <1>5, <1>6, <3>2, <3>5, <3>6 DEF ConsumerInv
  <2> QED  BY <2>1, <2>2
<1>14. RedeemedCalls'
  BY <1>1, <1>2, <1>3, <1>4, <1>5, <1>6
  DEF IdleCall, NoErasure, RedeemedCalls
<1>15. DeleteCalls'
  BY <1>1, <1>2, <1>3, <1>4, <1>5, <1>6
  DEF IdleCall, DeleteCalls, ProofsInv, ProofOf, Call, Answer
<1>16. ErasuresInv'
  BY <1>1, <1>2, <1>3, <1>4, <1>5, <1>6
  DEF ErasuresInv, Deleted, ProofOf, AuthTime, TypeOK, Erasure, Answer
<1>17. OneSessionPerFlow'
  BY <1>1, <1>2, <1>3, <1>4, <1>5, <1>6
  DEF OneSessionPerFlow
<1>18. OwnFlowsOnly'
  BY <1>1, <1>2, <1>3, <1>4, <1>5, <1>6
  DEF OwnFlowsOnly, CookiesInv, OpenedInv, Used, TypeOK
<1>19. ProofIsOwn'
  BY <1>1, <1>2, <1>3, <1>4, <1>5, <1>6
  DEF ProofIsOwn, ProofsInv, ProofOf, TypeOK, Session, Answer
<1> QED  BY <1>7, <1>8, <1>9, <1>10, <1>11, <1>12, <1>13, <1>14, <1>15, <1>16, <1>17, <1>18, <1>19

\* Redeem preserves the invariant.
LEMMA RedeemInv ==
  ASSUME IInv, NEW r \in Reqs, NEW a \in Answer, Redeem(r, a)
  PROVE  IInv'
<1> USE OidcAssumption DEF IInv
<1>1. \/ call' = [call EXCEPT ![r] = IdleCall]
      \/ /\ call[r].step = "consumed" /\ a.flow = call[r].flow /\ a.skew <= Leeway
         /\ call' = [call EXCEPT ![r] = Redeemed(call[r], a)]
  BY RecordFields
  DEF Redeem, Valid, Fail, Respond, Redeemed
<1>2. call' \in [Reqs -> Call] /\ \A r2 \in Reqs : r2 # r => call'[r2] = call[r2]
  <2>1. call[r] \in Call /\ IdleCall \in Call /\ Redeemed(call[r], a) \in Call
    BY RecordFields DEF TypeOK
  <2> QED  BY <1>1, <2>1 DEF TypeOK
<1>3. \/ call'[r] = IdleCall
      \/ /\ call[r].step = "consumed" /\ call'[r].step = "redeemed" /\ call'[r].flow = call[r].flow
         /\ call'[r].browser = call[r].browser /\ call'[r].session = call[r].session
         /\ call'[r].answer = a /\ a.flow = call[r].flow /\ a.skew <= Leeway
  BY <1>1, RecordFields DEF TypeOK
<1>4. binding' \subseteq binding /\ UNCHANGED <<now, flow, sessions, owner, erased, jar>>
  BY RecordFields
  DEF Redeem, Valid, Fail, Respond, rows, cookies
<1>5. TypeOK'
  BY <1>1, <1>2, <1>3, <1>4
  DEF TypeOK
<1>6. OpenedInv'
  BY <1>1, <1>2, <1>3, <1>4
  DEF OpenedInv, Used
<1>7. ProofsInv'
  BY <1>1, <1>2, <1>3, <1>4
  DEF ProofsInv, ProofOf
<1>8. CookiesInv'
  BY <1>1, <1>2, <1>3, <1>4
  DEF CookiesInv, Used
<1>9. SessionCalls'
  BY <1>1, <1>2, <1>3, <1>4
  DEF IdleCall, NoErasure, SessionCalls, Used
<1>10. FlowCalls'
  BY <1>1, <1>2, <1>3, <1>4
  DEF IdleCall, NoErasure, FlowCalls
<1>11. ConsumerInv'
  <2>1. Consuming' \subseteq Consuming /\ \A q \in Consuming' : call'[q].flow = call[q].flow
    BY <1>1, <1>2, <1>3, <1>4 DEF Consuming, IdleCall
  <2> QED  BY <1>1, <1>2, <1>3, <1>4, <2>1, ConsumersKept
           DEF ConsumerInv, Consuming
<1>12. RedeemedCalls'
  BY <1>1, <1>2, <1>3, <1>4
  DEF IdleCall, NoErasure, RedeemedCalls
<1>13. DeleteCalls'
  BY <1>1, <1>2, <1>3, <1>4
  DEF IdleCall, DeleteCalls, ProofsInv, Used, ProofOf
<1>14. ErasuresInv'
  BY <1>1, <1>2, <1>3, <1>4
  DEF ErasuresInv, Deleted, ProofOf
<1>15. OneSessionPerFlow'
  BY <1>1, <1>2, <1>3, <1>4
  DEF OneSessionPerFlow
<1>16. OwnFlowsOnly'
  BY <1>1, <1>2, <1>3, <1>4
  DEF OwnFlowsOnly
<1>17. ProofIsOwn'
  BY <1>1, <1>2, <1>3, <1>4
  DEF ProofIsOwn
<1> QED  BY <1>5, <1>6, <1>7, <1>8, <1>9, <1>10, <1>11, <1>12, <1>13, <1>14, <1>15, <1>16, <1>17

\* FinishLogin preserves the invariant.
LEMMA FinishLoginInv ==
  ASSUME IInv, NEW r \in Reqs, NEW u \in Users, NEW n \in Sessions, NEW timed \in BOOLEAN,
         FinishLogin(r, u, n, timed)
  PROVE  IInv'
<1> USE OidcAssumption DEF IInv
<1>1. /\ call[r].step = "redeemed" /\ call[r].flow \in Flows /\ call[r].browser \in Browsers
      /\ call[r].answer \in Answer /\ call[r].answer.flow = call[r].flow
      /\ sessions[n].user = NoUser
  BY DEF FinishLogin, Respond, Resolve, FlowCalls, RedeemedCalls
<1>2. /\ sessions' \in [Sessions -> Session]
      /\ sessions'[n].user = u /\ sessions'[n].opened = call[r].flow
      /\ sessions'[n].proof \in {call[r].answer, NoAnswer}
      /\ \A s \in Sessions : s # n =>
             /\ sessions'[s].user = sessions[s].user /\ sessions'[s].opened = sessions[s].opened
             /\ sessions'[s].proof = sessions[s].proof
             /\ sessions'[s].live => sessions[s].live
  BY <1>1, RecordFields
  DEF FinishLogin, Respond, Resolve, TypeOK, Session
<1>3. /\ owner' = [owner EXCEPT ![call[r].answer.subject] = u]
      /\ owner[call[r].answer.subject] \in {u, NoUser}
  BY DEF FinishLogin, Respond, Resolve, TypeOK
<1>4. /\ call'[r] = IdleCall /\ call' \in [Reqs -> Call]
      /\ \A r2 \in Reqs : r2 # r => call'[r2] = call[r2]
  BY DEF FinishLogin, Respond, IdleCall, TypeOK, Call, Time
<1>5. /\ binding' \subseteq binding /\ jar' \in {jar, [jar EXCEPT ![call[r].browser] = n]}
      /\ UNCHANGED <<now, flow, erased>>
  BY DEF FinishLogin, Respond, Resolve, cookies, TypeOK
<1>6. TypeOK'
  BY <1>1, <1>2, <1>3, <1>4, <1>5
  DEF TypeOK
<1>7. OpenedInv'
  BY <1>1, <1>2, <1>3, <1>4, <1>5
  DEF OpenedInv, FlowCalls, ConsumerInv, Consuming, Used
<1>8. ProofsInv'
  BY <1>1, <1>2, <1>3, <1>4, <1>5
  DEF ProofsInv, ConsumerInv, RedeemedCalls, Consuming, ProofOf
<1>9. CookiesInv'
  BY <1>1, <1>2, <1>3, <1>4, <1>5
  DEF CookiesInv, Used, TypeOK
<1>10. SessionCalls'
  BY <1>1, <1>2, <1>3, <1>4, <1>5
  DEF IdleCall, NoErasure, SessionCalls, Used, Call
<1>11. FlowCalls'
  BY <1>1, <1>2, <1>3, <1>4, <1>5
  DEF IdleCall, NoErasure, FlowCalls
<1>12. ConsumerInv'
  <2>1. /\ Consuming' \subseteq Consuming
        /\ \A q \in Consuming' : q # r /\ call'[q].flow = call[q].flow
    BY <1>1, <1>2, <1>3, <1>4, <1>5 DEF Consuming, IdleCall
  <2>2. r \in Consuming
    BY <1>1, <1>2, <1>3, <1>4, <1>5 DEF Consuming
  <2>3. \A q \in Consuming', s \in Sessions : sessions'[s].opened # call[q].flow
    BY <1>1, <1>2, <1>3, <1>4, <1>5, <2>1, <2>2 DEF ConsumerInv
  <2> QED  BY <1>1, <1>2, <1>3, <1>4, <1>5, <2>1, <2>3, ConsumersKept
<1>13. RedeemedCalls'
  BY <1>1, <1>2, <1>3, <1>4, <1>5
  DEF IdleCall, NoErasure, RedeemedCalls
<1>14. DeleteCalls'
  <2> SUFFICES ASSUME NEW q \in Reqs, call'[q].step = "delete"
               PROVE  /\ call'[q].session \in Sessions /\ call'[q].browser \in Browsers
                      /\ call'[q].answer # NoAnswer =>
                           ProofOf(call[q].answer, call[q].session)'
    BY DEF DeleteCalls, ProofOf
  <2>1. q # r /\ call'[q] = call[q]
    BY <1>1, <1>2, <1>3, <1>4, <1>5 DEF IdleCall
  <2>2. /\ call[q].session \in Sessions /\ call[q].browser \in Browsers
        /\ call[q].answer # NoAnswer => ProofOf(call[q].answer, call[q].session)
    BY <2>1 DEF DeleteCalls
  <2>3. sessions'[call[q].session].opened = sessions[call[q].session].opened
    BY <1>1, <1>2, <1>3, <1>4, <1>5, <2>2 DEF SessionCalls, Used
  <2> QED  BY <1>1, <1>2, <1>3, <1>4, <1>5, <2>1, <2>2, <2>3 DEF ProofOf
<1>15. ErasuresInv'
  BY <1>1, <1>2, <1>3, <1>4, <1>5
  DEF ErasuresInv, Deleted, ProofOf, AuthTime, TypeOK, Erasure
<1>16. OneSessionPerFlow'
  BY <1>1, <1>2, <1>3, <1>4, <1>5
  DEF OneSessionPerFlow, ConsumerInv, Consuming, Used
<1>17. OwnFlowsOnly'
  BY <1>1, <1>2, <1>3, <1>4, <1>5
  DEF OwnFlowsOnly, FlowCalls, CookiesInv, Used, TypeOK
<1>18. ProofIsOwn'
  BY <1>1, <1>2, <1>3, <1>4, <1>5
  DEF ProofIsOwn, ProofsInv, OpenedInv, Used, ProofOf, TypeOK, Answer
<1> QED  BY <1>6, <1>7, <1>8, <1>9, <1>10, <1>11, <1>12, <1>13, <1>14, <1>15, <1>16, <1>17, <1>18

\* FinishReauth preserves the invariant.
LEMMA FinishReauthInv ==
  ASSUME IInv, NEW r \in Reqs, FinishReauth(r)
  PROVE  IInv'
<1> USE OidcAssumption DEF IInv
<1>1. /\ call[r].step = "redeemed" /\ call[r].flow \in Flows
      /\ call[r].answer \in Answer /\ call[r].answer.flow = call[r].flow
  BY DEF FinishReauth, Respond, FlowCalls, RedeemedCalls, TypeOK
<1>2. /\ sessions' \in [Sessions -> Session]
      /\ \A s \in Sessions :
             /\ sessions'[s].user = sessions[s].user /\ sessions'[s].opened = sessions[s].opened
             /\ sessions'[s].live = sessions[s].live
             /\ \/ sessions'[s].proof = sessions[s].proof
                \/ /\ s = call[r].session /\ flow[call[r].flow].session = s
                   /\ owner[call[r].answer.subject] = sessions[s].user
                   /\ sessions'[s].proof = call[r].answer
  <2>1. CASE ReauthMatches(call[r])
    <3>1. call[r].session \in Sessions
      BY <2>1 DEF ReauthMatches, TypeOK, Call
    <3>2. sessions' = [sessions EXCEPT ![call[r].session] =
                                Proved(sessions[call[r].session], call[r].answer)]
      BY <2>1 DEF FinishReauth, Proved
    <3> QED  BY <1>1, <2>1, <3>1, <3>2, RecordFields DEF TypeOK, ReauthMatches
  <2>2. CASE ~ReauthMatches(call[r])
    BY <2>2 DEF FinishReauth, TypeOK
  <2> QED  BY <2>1, <2>2
<1>3. /\ call'[r] = IdleCall /\ call' \in [Reqs -> Call]
      /\ \A r2 \in Reqs : r2 # r => call'[r2] = call[r2]
  BY DEF FinishReauth, Respond, IdleCall, TypeOK, Call, Time
<1>4. binding' \subseteq binding /\ UNCHANGED <<now, flow, owner, erased, jar>>
  BY DEF FinishReauth, Respond, rows, cookies, TypeOK
<1>5. TypeOK'
  BY <1>1, <1>2, <1>3, <1>4
  DEF TypeOK
<1>6. OpenedInv'
  <2> SUFFICES ASSUME NEW s \in Sessions
               PROVE  /\ Used(s)' => /\ sessions'[s].opened \in Flows
                                     /\ flow[sessions'[s].opened].status \in {"consumed", "pruned"}
                      /\ ~Used(s)' => /\ sessions'[s].opened = NoFlow /\ ~sessions'[s].live
                                      /\ sessions'[s].proof = NoAnswer
    BY <1>1, <1>2, <1>3, <1>4 DEF OpenedInv
  <2>1. sessions'[s].proof = sessions[s].proof \/ Used(s)
    BY <1>1, <1>2, <1>3, <1>4 DEF SessionCalls
  <2> QED  BY <1>1, <1>2, <1>3, <1>4, <2>1 DEF OpenedInv, Used
<1>7. ProofsInv'
  BY <1>1, <1>2, <1>3, <1>4
  DEF ProofsInv, ConsumerInv, RedeemedCalls, Consuming, ProofOf
<1>8. CookiesInv'
  BY <1>1, <1>2, <1>3, <1>4
  DEF CookiesInv, Used, TypeOK
<1>9. SessionCalls'
  BY <1>1, <1>2, <1>3, <1>4
  DEF IdleCall, NoErasure, SessionCalls, Used, Call
<1>10. FlowCalls'
  BY <1>1, <1>2, <1>3, <1>4
  DEF IdleCall, NoErasure, FlowCalls
<1>11. ConsumerInv'
  <2>1. /\ Consuming' \subseteq Consuming
        /\ \A q \in Consuming' : q # r /\ call'[q].flow = call[q].flow
    BY <1>1, <1>2, <1>3, <1>4 DEF Consuming, IdleCall
  <2> QED  BY <1>1, <1>2, <1>3, <1>4, <2>1, ConsumersKept
           DEF ConsumerInv, Consuming
<1>12. RedeemedCalls'
  BY <1>1, <1>2, <1>3, <1>4
  DEF IdleCall, NoErasure, RedeemedCalls
<1>13. DeleteCalls'
  <2> SUFFICES ASSUME NEW q \in Reqs, call'[q].step = "delete"
               PROVE  /\ call'[q].session \in Sessions /\ call'[q].browser \in Browsers
                      /\ call'[q].answer # NoAnswer =>
                           ProofOf(call[q].answer, call[q].session)'
    BY DEF DeleteCalls, ProofOf
  <2>1. q # r /\ call'[q] = call[q]
    BY <1>1, <1>2, <1>3, <1>4 DEF IdleCall
  <2>2. /\ call[q].session \in Sessions /\ call[q].browser \in Browsers
        /\ call[q].answer # NoAnswer => ProofOf(call[q].answer, call[q].session)
    BY <2>1 DEF DeleteCalls
  <2>3. sessions'[call[q].session].opened = sessions[call[q].session].opened
    BY <1>1, <1>2, <1>3, <1>4, <2>2 DEF SessionCalls, Used
  <2> QED  BY <1>1, <1>2, <1>3, <1>4, <2>1, <2>2, <2>3 DEF ProofOf
<1>14. ErasuresInv'
  BY <1>1, <1>2, <1>3, <1>4
  DEF ErasuresInv, Deleted, ProofOf, AuthTime, TypeOK, Erasure
<1>15. OneSessionPerFlow'
  BY <1>1, <1>2, <1>3, <1>4
  DEF OneSessionPerFlow
<1>16. OwnFlowsOnly'
  BY <1>1, <1>2, <1>3, <1>4
  DEF OwnFlowsOnly, Used, TypeOK
<1>17. ProofIsOwn'
  BY <1>1, <1>2, <1>3, <1>4
  DEF ProofIsOwn
<1> QED  BY <1>5, <1>6, <1>7, <1>8, <1>9, <1>10, <1>11, <1>12, <1>13, <1>14, <1>15, <1>16, <1>17

\* DeleteOpen preserves the invariant.
LEMMA DeleteOpenInv ==
  ASSUME IInv, NEW r \in Reqs, NEW b \in Browsers, DeleteOpen(r, b)
  PROVE  IInv'
<1> USE OidcAssumption DEF IInv
<1>1. call' \in [Reqs -> Call] /\ \A r2 \in Reqs : r2 # r => call'[r2] = call[r2]
  BY DEF DeleteOpen, Current, TypeOK, Session, Call, Time
<1>2. /\ call'[r].step = "delete" /\ call'[r].session \in Sessions /\ call'[r].browser = b
      /\ Used(call'[r].session) /\ call'[r].answer = sessions[call'[r].session].proof
  BY DEF DeleteOpen, Current, CookiesInv, TypeOK
<1>3. UNCHANGED <<now, flow, sessions, owner, erased, jar, binding>>
  BY DEF DeleteOpen, Current, rows, cookies, TypeOK
<1>4. TypeOK'
  BY <1>1, <1>2, <1>3
  DEF TypeOK
<1>5. OpenedInv'
  BY <1>1, <1>2, <1>3
  DEF OpenedInv, Used
<1>6. ProofsInv'
  BY <1>1, <1>2, <1>3
  DEF ProofsInv, ProofOf
<1>7. CookiesInv'
  BY <1>1, <1>2, <1>3
  DEF CookiesInv, Used
<1>8. SessionCalls'
  BY <1>1, <1>2, <1>3
  DEF SessionCalls, Used
<1>9. FlowCalls'
  BY <1>1, <1>2, <1>3
  DEF FlowCalls
<1>10. ConsumerInv'
  <2>1. /\ Consuming' \subseteq Consuming
        /\ \A q \in Consuming' : q # r /\ call'[q].flow = call[q].flow
    BY <1>1, <1>2, <1>3 DEF Consuming
  <2> QED  BY <1>1, <1>2, <1>3, <2>1, ConsumersKept
           DEF ConsumerInv, Consuming
<1>11. RedeemedCalls'
  BY <1>1, <1>2, <1>3
  DEF RedeemedCalls
<1>12. DeleteCalls'
  BY <1>1, <1>2, <1>3
  DEF DeleteCalls, ProofsInv, Used, ProofOf
<1>13. ErasuresInv'
  BY <1>1, <1>2, <1>3
  DEF ErasuresInv, Deleted, ProofOf
<1>14. OneSessionPerFlow'
  BY <1>1, <1>2, <1>3
  DEF OneSessionPerFlow
<1>15. OwnFlowsOnly'
  BY <1>1, <1>2, <1>3
  DEF OwnFlowsOnly
<1>16. ProofIsOwn'
  BY <1>1, <1>2, <1>3
  DEF ProofIsOwn
<1> QED  BY <1>4, <1>5, <1>6, <1>7, <1>8, <1>9, <1>10, <1>11, <1>12, <1>13, <1>14, <1>15, <1>16

\* DeleteFinish preserves the invariant.
LEMMA DeleteFinishInv ==
  ASSUME IInv, NEW r \in Reqs, DeleteFinish(r)
  PROVE  IInv'
<1> USE OidcAssumption DEF IInv
<1>1. /\ call[r].step = "delete" /\ call[r].session \in Sessions /\ call[r].browser \in Browsers
      /\ sessions[call[r].session].user \in Users
  BY DEF DeleteFinish, SessionCalls, DeleteCalls, Used, TypeOK, Session
<1>2. /\ sessions' \in [Sessions -> Session]
      /\ \A s \in Sessions :
             /\ sessions'[s].user = sessions[s].user /\ sessions'[s].opened = sessions[s].opened
             /\ sessions'[s].proof = sessions[s].proof
             /\ sessions'[s].live =>
                  /\ sessions[s].live
                  /\ \A p \in Subjects : owner[p] = sessions[s].user => owner'[p] = owner[p]
  BY <1>1, RecordFields
  DEF DeleteFinish, TypeOK
<1>3. owner' \in [Subjects -> Users \cup {NoUser}]
  BY DEF DeleteFinish, TypeOK
<1>4. /\ erased' \in [Users -> Erasure \cup {NoErasure}]
      /\ \A u \in Users : \/ erased'[u] = erased[u]
                            \/ /\ u = sessions[call[r].session].user
                               /\ erased'[u].session = call[r].session
                               /\ erased'[u].proof = call[r].answer /\ erased'[u].at = now
                               /\ call[r].answer \in Answer
                               /\ call[r].answer # NoAnswer
                               /\ now <= AuthTime(call[r].answer) + Freshness
  <2>1. CASE ~Fresh(call[r].answer)
    BY <2>1 DEF DeleteFinish, TypeOK
  <2>2. CASE Fresh(call[r].answer)
    <3>1. call[r].answer \in Answer /\ call[r].answer # NoAnswer /\ now \in Time
      BY <2>2 DEF Fresh, TypeOK, Call
    <3>2. [session |-> call[r].session, proof |-> call[r].answer, at |-> now] \in Erasure
      BY <1>1, <3>1 DEF Erasure
    <3> QED  BY <1>1, <2>2, <3>1, <3>2 DEF DeleteFinish, Fresh, TypeOK
  <2> QED  BY <2>1, <2>2
<1>5. /\ call'[r] = IdleCall /\ call' \in [Reqs -> Call]
      /\ \A r2 \in Reqs : r2 # r => call'[r2] = call[r2]
  BY DEF DeleteFinish, IdleCall, TypeOK, Call, Time
<1>6. /\ jar' \in [Browsers -> Sessions \cup {NoSession}]
      /\ \A b \in Browsers : jar'[b] \in {jar[b], NoSession}
      /\ UNCHANGED <<now, flow, binding>>
  BY DEF DeleteFinish, TypeOK
<1>7. TypeOK'
  BY <1>1, <1>2, <1>3, <1>4, <1>5, <1>6
  DEF TypeOK
<1>8. OpenedInv'
  BY <1>1, <1>2, <1>3, <1>4, <1>5, <1>6
  DEF OpenedInv, Used
<1>9. ProofsInv'
  BY <1>1, <1>2, <1>3, <1>4, <1>5, <1>6
  DEF ProofsInv, ProofOf
<1>10. CookiesInv'
  BY <1>1, <1>2, <1>3, <1>4, <1>5, <1>6
  DEF CookiesInv, Used
<1>11. SessionCalls'
  BY <1>1, <1>2, <1>3, <1>4, <1>5, <1>6
  DEF IdleCall, NoErasure, SessionCalls, Used, Call
<1>12. FlowCalls'
  BY <1>1, <1>2, <1>3, <1>4, <1>5, <1>6
  DEF IdleCall, NoErasure, FlowCalls
<1>13. ConsumerInv'
  <2>1. /\ Consuming' \subseteq Consuming
        /\ \A q \in Consuming' : q # r /\ call'[q].flow = call[q].flow
    BY <1>1, <1>2, <1>3, <1>4, <1>5, <1>6 DEF Consuming, IdleCall
  <2> QED  BY <1>1, <1>2, <1>3, <1>4, <1>5, <1>6, <2>1, ConsumersKept
           DEF ConsumerInv, Consuming
<1>14. RedeemedCalls'
  BY <1>1, <1>2, <1>3, <1>4, <1>5, <1>6
  DEF IdleCall, NoErasure, RedeemedCalls
<1>15. DeleteCalls'
  <2> SUFFICES ASSUME NEW q \in Reqs, call'[q].step = "delete"
               PROVE  /\ call'[q].session \in Sessions /\ call'[q].browser \in Browsers
                      /\ call'[q].answer # NoAnswer =>
                           ProofOf(call[q].answer, call[q].session)'
    BY DEF DeleteCalls, ProofOf
  <2>1. q # r /\ call'[q] = call[q]
    BY <1>1, <1>2, <1>3, <1>4, <1>5, <1>6 DEF IdleCall
  <2>2. /\ call[q].session \in Sessions /\ call[q].browser \in Browsers
        /\ call[q].answer # NoAnswer => ProofOf(call[q].answer, call[q].session)
    BY <2>1 DEF DeleteCalls
  <2>3. sessions'[call[q].session].opened = sessions[call[q].session].opened
    BY <1>1, <1>2, <1>3, <1>4, <1>5, <1>6, <2>2 DEF SessionCalls, Used
  <2> QED  BY <1>1, <1>2, <1>3, <1>4, <1>5, <1>6, <2>1, <2>2, <2>3 DEF ProofOf
<1>16. ErasuresInv'
  <2> SUFFICES ASSUME NEW u \in Users, erased'[u] # NoErasure
               PROVE  /\ sessions'[erased'[u].session].user = u
                      /\ ProofOf(erased[u].proof, erased[u].session)'
                      /\ erased'[u].at <= erased'[u].proof.real + Freshness + Leeway
    BY DEF ErasuresInv, Deleted, ProofOf, NoErasure
  <2>1. CASE erased'[u] = erased[u]
    <3>1. erased[u] \in Erasure /\ erased[u].session \in Sessions
      BY <2>1 DEF TypeOK, Erasure
    <3> QED  BY <1>1, <1>2, <1>3, <1>4, <1>5, <1>6, <2>1, <3>1 DEF ErasuresInv, Deleted, ProofOf
  <2>2. CASE erased'[u] # erased[u]
    <3>1. /\ u = sessions[call[r].session].user /\ erased'[u].session = call[r].session
          /\ erased'[u].proof = call[r].answer /\ erased'[u].at = now
          /\ call[r].answer \in Answer /\ call[r].answer # NoAnswer
          /\ now <= AuthTime(call[r].answer) + Freshness
      BY <1>1, <1>2, <1>3, <1>4, <1>5, <1>6, <2>2
    <3>2. ProofOf(call[r].answer, call[r].session)
      BY <1>1, <1>2, <1>3, <1>4, <1>5, <1>6, <3>1 DEF DeleteCalls
    <3>3. now <= call[r].answer.real + Freshness + Leeway
      BY <3>1, <3>2 DEF AuthTime, ProofOf, TypeOK, Answer, Time
    <3> QED  BY <1>1, <1>2, <1>3, <1>4, <1>5, <1>6, <3>1, <3>2, <3>3 DEF ProofOf
  <2> QED  BY <2>1, <2>2
<1>17. OneSessionPerFlow'
  BY <1>1, <1>2, <1>3, <1>4, <1>5, <1>6
  DEF OneSessionPerFlow
<1>18. OwnFlowsOnly'
  BY <1>1, <1>2, <1>3, <1>4, <1>5, <1>6
  DEF OwnFlowsOnly
<1>19. ProofIsOwn'
  BY <1>1, <1>2, <1>3, <1>4, <1>5, <1>6
  DEF ProofIsOwn, ProofsInv, ProofOf, Session, Answer
<1> QED  BY <1>7, <1>8, <1>9, <1>10, <1>11, <1>12, <1>13, <1>14, <1>15, <1>16, <1>17, <1>18, <1>19

\* Logout preserves the invariant.
LEMMA LogoutInv ==
  ASSUME IInv, NEW b \in Browsers, Logout(b)
  PROVE  IInv'
<1> USE OidcAssumption DEF IInv
<1>1. /\ sessions' \in [Sessions -> Session]
      /\ \A s \in Sessions :
             /\ sessions'[s].user = sessions[s].user /\ sessions'[s].opened = sessions[s].opened
             /\ sessions'[s].proof = sessions[s].proof
             /\ sessions'[s].live => sessions[s].live
  BY RecordFields
  DEF Logout, TypeOK
<1>2. /\ jar' \in [Browsers -> Sessions \cup {NoSession}]
      /\ \A c \in Browsers : jar'[c] \in {jar[c], NoSession}
      /\ UNCHANGED <<now, flow, owner, erased, binding, call>>
  BY DEF Logout, TypeOK
<1>3. TypeOK'
  BY <1>1, <1>2
  DEF TypeOK
<1>4. OpenedInv'
  BY <1>1, <1>2
  DEF OpenedInv, Used
<1>5. ProofsInv'
  BY <1>1, <1>2
  DEF ProofsInv, ProofOf
<1>6. CookiesInv'
  BY <1>1, <1>2
  DEF CookiesInv, Used
<1>7. SessionCalls'
  BY <1>1, <1>2
  DEF SessionCalls, Used, TypeOK, Call
<1>8. FlowCalls'
  BY <1>1, <1>2
  DEF FlowCalls
<1>9. ConsumerInv'
  BY <1>1, <1>2
  DEF ConsumerInv, Consuming
<1>10. RedeemedCalls'
  BY <1>1, <1>2
  DEF RedeemedCalls
<1>11. DeleteCalls'
  BY <1>1, <1>2
  DEF DeleteCalls, ProofOf
<1>12. ErasuresInv'
  BY <1>1, <1>2
  DEF ErasuresInv, Deleted, ProofOf, AuthTime, TypeOK, Erasure
<1>13. OneSessionPerFlow'
  BY <1>1, <1>2
  DEF OneSessionPerFlow
<1>14. OwnFlowsOnly'
  BY <1>1, <1>2
  DEF OwnFlowsOnly
<1>15. ProofIsOwn'
  BY <1>1, <1>2
  DEF ProofIsOwn
<1> QED  BY <1>3, <1>4, <1>5, <1>6, <1>7, <1>8, <1>9, <1>10, <1>11, <1>12, <1>13, <1>14, <1>15

\* Prune preserves the invariant.
LEMMA PruneInv ==
  ASSUME IInv, NEW f \in Flows, Prune(f)
  PROVE  IInv'
<1> USE OidcAssumption DEF IInv
<1>1. /\ flow' \in [Flows -> Flow] /\ flow[f].status \in {"open", "consumed"}
      /\ \A g \in Flows : /\ flow'[g].purpose = flow[g].purpose
                          /\ flow'[g].browser = flow[g].browser
                          /\ flow'[g].session = flow[g].session
      /\ \A g \in Flows : flow'[g].status = IF g = f THEN "pruned" ELSE flow[g].status
  BY DEF Prune, TypeOK, Flow, Answer, Time
<1>2. UNCHANGED <<now, sessions, owner, erased, jar, binding, call>>
  BY DEF Prune, rows, cookies, NoErasure, TypeOK
<1>3. TypeOK'
  BY <1>1, <1>2
  DEF TypeOK
<1>4. OpenedInv'
  BY <1>1, <1>2
  DEF OpenedInv, Used
<1>5. ProofsInv'
  <2>1. \A s \in Sessions : sessions[s].proof # NoAnswer => sessions[s].proof.flow \in Flows
    BY DEF TypeOK, Session, Answer
  <2> QED  BY <1>1, <1>2, <2>1 DEF ProofsInv, ProofOf
<1>6. CookiesInv'
  BY <1>1, <1>2
  DEF CookiesInv, Used
<1>7. SessionCalls'
  BY <1>1, <1>2
  DEF SessionCalls, Used
<1>8. FlowCalls'
  BY <1>1, <1>2
  DEF FlowCalls
<1>9. ConsumerInv'
  BY <1>1, <1>2
  DEF ConsumerInv, FlowCalls, Consuming, Used, Acceptable
<1>10. RedeemedCalls'
  BY <1>1, <1>2
  DEF RedeemedCalls
<1>11. DeleteCalls'
  BY <1>1, <1>2
  DEF DeleteCalls, ProofsInv, ProofOf, TypeOK, Call, Answer
<1>12. ErasuresInv'
  BY <1>1, <1>2
  DEF ErasuresInv, Deleted, ProofOf, AuthTime, TypeOK, Erasure, Answer
<1>13. OneSessionPerFlow'
  BY <1>1, <1>2
  DEF OneSessionPerFlow
<1>14. OwnFlowsOnly'
  BY <1>1, <1>2
  DEF OwnFlowsOnly, CookiesInv, OpenedInv, Used, TypeOK
<1>15. ProofIsOwn'
  BY <1>1, <1>2
  DEF ProofIsOwn, ProofsInv, ProofOf, TypeOK, Session, Answer
<1> QED  BY <1>3, <1>4, <1>5, <1>6, <1>7, <1>8, <1>9, <1>10, <1>11, <1>12, <1>13, <1>14, <1>15

\* A request that ends without a write preserves the invariant: Abort and RefuseLogin.
LEMMA EndedInv ==
  ASSUME IInv, NEW r \in Reqs, call' = [call EXCEPT ![r] = IdleCall],
         binding' \subseteq binding, UNCHANGED <<now, rows, jar>>
  PROVE  IInv'
<1> USE OidcAssumption DEF IInv, rows, IdleCall, NoErasure
<1>1. TypeOK'
  BY DEF TypeOK, Call, Answer, Time
<1>2. OpenedInv'
  BY DEF OpenedInv, Used
<1>3. ProofsInv'
  BY DEF ProofsInv, ProofOf
<1>4. CookiesInv'
  BY DEF CookiesInv, Used
<1>5. SessionCalls'
  BY DEF SessionCalls, Used
<1>6. FlowCalls'
  BY DEF FlowCalls
<1>7. ConsumerInv'
  BY DEF ConsumerInv, Consuming
<1>8. RedeemedCalls'
  BY DEF RedeemedCalls
<1>9. DeleteCalls'
  BY DEF DeleteCalls, ProofOf
<1>10. ErasuresInv'
  BY DEF ErasuresInv, Deleted, ProofOf
<1>11. OneSessionPerFlow'
  BY DEF OneSessionPerFlow
<1>12. OwnFlowsOnly'
  BY DEF OwnFlowsOnly
<1>13. ProofIsOwn'
  BY DEF ProofIsOwn
<1> QED  BY <1>1, <1>2, <1>3, <1>4, <1>5, <1>6, <1>7, <1>8, <1>9, <1>10, <1>11, <1>12, <1>13

\* Abort preserves the invariant.
LEMMA AbortInv ==
  ASSUME IInv, NEW r \in Reqs, Abort(r)
  PROVE  IInv'
BY EndedInv DEF Abort, cookies

\* RefuseLogin preserves the invariant.
LEMMA RefuseLoginInv ==
  ASSUME IInv, NEW r \in Reqs, RefuseLogin(r)
  PROVE  IInv'
BY EndedInv DEF RefuseLogin, Fail, Respond, cookies

\* Tick preserves the invariant.
LEMMA TickInv ==
  ASSUME IInv, Tick
  PROVE  IInv'
<1> USE OidcAssumption DEF IInv, Tick, rows, cookies, IdleCall, NoErasure
<1>1. TypeOK'
  BY DEF TypeOK, Call, Answer, Time
<1>2. OpenedInv'
  BY DEF OpenedInv, Used
<1>3. ProofsInv'
  BY DEF ProofsInv, ProofOf
<1>4. CookiesInv'
  BY DEF CookiesInv, Used
<1>5. SessionCalls'
  BY DEF SessionCalls, Used
<1>6. FlowCalls'
  BY DEF FlowCalls
<1>7. ConsumerInv'
  BY DEF ConsumerInv, Consuming
<1>8. RedeemedCalls'
  BY DEF RedeemedCalls
<1>9. DeleteCalls'
  BY DEF DeleteCalls, ProofOf
<1>10. ErasuresInv'
  BY DEF ErasuresInv, Deleted, ProofOf
<1>11. OneSessionPerFlow'
  BY DEF OneSessionPerFlow
<1>12. OwnFlowsOnly'
  BY DEF OwnFlowsOnly
<1>13. ProofIsOwn'
  BY DEF ProofIsOwn
<1> QED  BY <1>1, <1>2, <1>3, <1>4, <1>5, <1>6, <1>7, <1>8, <1>9, <1>10, <1>11, <1>12, <1>13

\* Every step preserves the invariant.
LEMMA NextInv == IInv /\ [Next]_vars => IInv'
<1> SUFFICES ASSUME IInv, [Next]_vars PROVE IInv'
  OBVIOUS
<1>1. CASE UNCHANGED vars
  BY <1>1
  DEF vars, rows, cookies, IInv, TypeOK, OpenedInv, ProofsInv, CookiesInv,
      SessionCalls, FlowCalls, ConsumerInv, RedeemedCalls, DeleteCalls, ErasuresInv,
      OneSessionPerFlow, OwnFlowsOnly, ProofIsOwn, Consuming, Used, Deleted, ProofOf
<1>2. CASE \E b \in Browsers, f \in Flows : StartLogin(b, f) \/ StartReauth(b, f)
  BY <1>2, StartLoginInv, StartReauthInv
<1>3. CASE \E r \in Reqs, b \in Browsers, f \in Flows, ok \in BOOLEAN : Open(r, b, f, ok)
  BY <1>3, OpenInv
<1>4. CASE \E r \in Reqs : \/ Consume(r) \/ RefuseLogin(r) \/ FinishReauth(r)
                           \/ DeleteFinish(r) \/ Abort(r)
  BY <1>4, ConsumeInv, RefuseLoginInv, FinishReauthInv, DeleteFinishInv, AbortInv
<1>5. CASE \E r \in Reqs, a \in Answer : Redeem(r, a)
  BY <1>5, RedeemInv
<1>6. CASE \E r \in Reqs, u \in Users, n \in Sessions, timed \in BOOLEAN :
             FinishLogin(r, u, n, timed)
  BY <1>6, FinishLoginInv
<1>7. CASE \E r \in Reqs, b \in Browsers : DeleteOpen(r, b)
  BY <1>7, DeleteOpenInv
<1>8. CASE (\E b \in Browsers : Logout(b)) \/ (\E f \in Flows : Prune(f)) \/ Tick
  BY <1>8, LogoutInv, PruneInv, TickInv
<1> QED  BY <1>1, <1>2, <1>3, <1>4, <1>5, <1>6, <1>7, <1>8 DEF Next

\* The invariant holds in every reachable state.
THEOREM Invariance == Spec => []IInv
BY InitInv, NextInv, PTL DEF Spec

\* Every variable keeps its type.
THEOREM TypeCorrect == Spec => []TypeOK
<1>1. IInv => TypeOK  BY DEF IInv
<1> QED  BY <1>1, Invariance, PTL

\* A flow opens at most one session, whatever callbacks race or are repeated: a request
\* passes _consume_callback_state only while the row is unconsumed, and until it opens
\* the session it is the only one that has.
THEOREM SingleUse == Spec => []OneSessionPerFlow
<1>1. IInv => OneSessionPerFlow  BY DEF IInv
<1> QED  BY <1>1, Invariance, PTL

\* A browser is logged in only by flows that it started: the binding cookie.
THEOREM BrowserBound == Spec => []OwnFlowsOnly
<1>1. IInv => OwnFlowsOnly  BY DEF IInv
<1> QED  BY <1>1, Invariance, PTL

\* The authentication that _complete_reauth_callback or record_oidc_login records in a
\* session belongs to that session and to its account.
THEOREM ProofBound == Spec => []ProofIsOwn
<1>1. IInv => ProofIsOwn  BY DEF IInv
<1> QED  BY <1>1, Invariance, PTL

\* _require_fresh_oidc_reauth: a deletion follows a real authentication within the
\* freshness and the leeway, although login does not check auth_time itself.
THEOREM DeletionFresh == Spec => []FreshDeletion
<1>1. IInv => FreshDeletion
  BY DEF IInv, ErasuresInv, FreshDeletion, ProofOf
<1> QED  BY <1>1, Invariance, PTL
=============================================================================
