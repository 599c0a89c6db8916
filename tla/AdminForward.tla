---------------------------- MODULE AdminForward ----------------------------
(***************************************************************************)
(* Admin commands for a proxy with another name: forwardAdminToNamedProxy  *)
(* and its streaming form in internal/lb/proxy.go.  The proxy looks for    *)
(* the name among its children's statuses, one after the other, through    *)
(* the records ChildProxies keeps; a single match gets the command, and    *)
(* without a match every child gets it, to look for the name below.        *)
(*                                                                         *)
(* A child bears the name itself, and carries the command out (named), or  *)
(* it runs the same search over children of its own, which may find any    *)
(* number of proxies of that name.  targets counts them all, and applied   *)
(* is history: how many of them, by child, carried the command out.        *)
(*                                                                         *)
(* An operator marked "Fault" is a wrong version of the one below it.      *)
(***************************************************************************)
EXTENDS ChildProxies

Reply(w, reply) == Set(w, [Resting EXCEPT !.task = worker[w].task, !.pc = "done",
                                          !.reply = reply, !.applied = worker[w].applied])

\* A command arrives whose header names another proxy.
ArriveAdmin(w) ==
  /\ worker[w].pc = "idle"
  /\ \E task \in setup.tasks[w] \cap {"admin", "stream"} :
       Set(w, [Resting EXCEPT !.task = task, !.pc = "search", !.turn = 1])
  /\ UNCHANGED <<sf, clock, states, active, inFlight, setup>>

\* findDirectChildProxyMatches: the next child is asked for its status,
AskNext(w) ==
  /\ worker[w].pc = "search" /\ worker[w].turn <= Len(ChildURLs)
  /\ Set(w, [worker[w] EXCEPT !.pc = "asked",
               !.keep[ChildURLs[worker[w].turn]] = Fallbacks[ChildURLs[worker[w].turn]]])
  /\ UNCHANGED <<sf, clock, states, active, inFlight, setup>>

\* Fault: a child that cannot be asked takes the next one's turn as well.
CompareSkips(w) ==
  LET c == ChildURLs[worker[w].turn]
  IN  /\ worker[w].pc = "asked"
      /\ \E answer \in Answers(c) :
           LET result == Result(w, c, answer)
           IN  /\ states' = [states EXCEPT ![c] = Learned(w, c, answer)]
               /\ Set(w, [worker[w] EXCEPT !.pc = "search", !.keep = Resting.keep,
                            !.turn = @ + (IF result.known THEN 1 ELSE 2),
                            !.named = IF result.named THEN @ \cup {c} ELSE @,
                            !.errors = @ \/ ~result.known])
      /\ UNCHANGED <<sf, clock, active, inFlight, setup>>

\* and its name is compared.
Compare(w) ==
  LET c == ChildURLs[worker[w].turn]
  IN  /\ worker[w].pc = "asked"
      /\ \E answer \in Answers(c) :
           LET result == Result(w, c, answer)
           IN  /\ states' = [states EXCEPT ![c] = Learned(w, c, answer)]
               /\ Set(w, [worker[w] EXCEPT !.pc = "search", !.turn = @ + 1, !.keep = Resting.keep,
                            !.named = IF result.named THEN @ \cup {c} ELSE @,
                            !.errors = @ \/ ~result.known])
      /\ UNCHANGED <<sf, clock, active, inFlight, setup>>

\* All were asked: one match gets the command, none makes it a search below them.
Searched(w) ==
  /\ worker[w].pc = "search" /\ worker[w].turn > Len(ChildURLs)
  /\ LET n == Cardinality(worker[w].named)
     IN  \/ n = 0 /\ worker[w].errors /\ Reply(w, "failed")
         \/ n = 0 /\ ~worker[w].errors
              /\ Set(w, [worker[w] EXCEPT !.pc = "forward", !.turn = 1])
         \/ n = 1 /\ Set(w, [worker[w] EXCEPT !.pc = "direct", !.errors = FALSE, !.turn =
                               CHOOSE i \in DOMAIN ChildURLs : ChildURLs[i] \in worker[w].named])
         \/ n > 1 /\ Reply(w, "ambiguous")
  /\ UNCHANGED <<sf, clock, states, active, inFlight, setup>>

(***************************************************************************)
(* What the child does with the command, as [applied, reply]: it carries   *)
(* it out or sends it to its own children, so that up to as many proxies   *)
(* carry it out as bear the name; it knows nobody of the name; it reports  *)
(* an error, its own or one from below ("ambiguous" too), which need not   *)
(* mean that nothing was carried out.  "lost" is a transport error.  A     *)
(* streaming command is answered before it is carried out, and whoever     *)
(* forwards it ignores how its output ends.  Of a child that searches no   *)
(* more is assumed than AdminOutcome says of the proxy here.               *)
(***************************************************************************)
Outcomes(w, c) ==
  {o \in [applied : 0..setup.targets[c], reply : {"done", "absent", "failed", "lost"}] :
     /\ o.reply = "absent" => o.applied = 0
     /\ o.reply = "done" /\ worker[w].task = "admin" => o.applied > 0}

\* applied when o is what c did.
Counting(w, c, o) == [worker[w].applied EXCEPT ![c] = @ + o.applied]

\* Fault: after a transport error the other children are asked.
ForwardDirectOn(w) ==
  /\ worker[w].pc = "direct"
  /\ LET c == ChildURLs[worker[w].turn]
     IN  \E o \in Outcomes(w, c) :
           Set(w, IF o.reply = "lost"
                  THEN [worker[w] EXCEPT !.pc = "forward", !.turn = 1,
                                         !.applied = Counting(w, c, o)]
                  ELSE [Resting EXCEPT !.task = worker[w].task, !.pc = "done",
                                       !.reply = o.reply, !.applied = Counting(w, c, o)])
  /\ UNCHANGED <<sf, clock, states, active, inFlight, setup>>

\* The one match gets the command, and its answer is the answer.
ForwardDirect(w) ==
  /\ worker[w].pc = "direct"
  /\ LET c == ChildURLs[worker[w].turn]
     IN  \E o \in Outcomes(w, c) :
           Set(w, [Resting EXCEPT !.task = worker[w].task, !.pc = "done",
                                  !.reply = IF o.reply = "lost" THEN "failed" ELSE o.reply,
                                  !.applied = Counting(w, c, o)])
  /\ UNCHANGED <<sf, clock, states, active, inFlight, setup>>

\* The next child is asked to look for the name.  A streaming command takes the first
\* answer that is not "no such name"; otherwise every child gets the command, and a
\* second such answer makes the name ambiguous.
ForwardNext(w) ==
  /\ worker[w].pc = "forward" /\ worker[w].turn <= Len(ChildURLs)
  /\ \E o \in Outcomes(w, ChildURLs[worker[w].turn]) :
       LET applied == Counting(w, ChildURLs[worker[w].turn], o)
           next == [worker[w] EXCEPT !.turn = @ + 1, !.applied = applied]
           end  == [Resting EXCEPT !.task = worker[w].task, !.pc = "done", !.applied = applied]
       IN  \/ o.reply = "lost"   /\ Set(w, [next EXCEPT !.errors = TRUE])
           \/ o.reply = "absent" /\ Set(w, next)
           \/ /\ o.reply \in {"done", "failed"}
              /\ Set(w, IF worker[w].task = "stream" THEN [end EXCEPT !.reply = o.reply]
                        ELSE IF worker[w].matched # "none"
                        THEN [end EXCEPT !.reply = "ambiguous"]
                        ELSE [next EXCEPT !.matched = o.reply])
  /\ UNCHANGED <<sf, clock, states, active, inFlight, setup>>

\* Every child was asked.
Forwarded(w) ==
  /\ worker[w].pc = "forward" /\ worker[w].turn > Len(ChildURLs)
  /\ Reply(w, IF worker[w].matched # "none" THEN worker[w].matched
              ELSE IF worker[w].errors THEN "failed" ELSE "absent")
  /\ UNCHANGED <<sf, clock, states, active, inFlight, setup>>

\* The handler returns.
ReturnReply(w) ==
  /\ worker[w].pc = "done"
  /\ End(w)
  /\ UNCHANGED <<sf, clock, states, active, inFlight, setup>>

AdminStep(w) ==
  \/ AskNext(w) \/ Compare(w) \/ Searched(w)
  \/ ForwardDirect(w) \/ ForwardNext(w) \/ Forwarded(w) \/ ReturnReply(w)

-----------------------------------------------------------------------------
Next ==
  \/ \E w \in Workers : Arrive(w) \/ StartRefresh(w) \/ ArriveAdmin(w)
                        \/ RouteStep(w) \/ AdminStep(w)
  \/ Tick

Spec == Init /\ [][Next]_vars

-----------------------------------------------------------------------------
(***************************************************************************)
(* Properties                                                              *)
(***************************************************************************)

Targets == setup.targets

\* What the client is told of a command for a named proxy is true, whichever statuses
\* were stale, queries failed and answers got lost: "done" means that it was carried
\* out (unless it streams), "no such proxy" that it was not; and no child is sent the
\* command twice, so that no proxy below it carries it out twice.
AdminOutcome ==
  \A w \in Workers : worker[w].pc = "done" =>
    /\ worker[w].reply = "done" /\ worker[w].task = "admin"
         => \E c \in Children : worker[w].applied[c] > 0
    /\ worker[w].reply = "absent" => worker[w].applied = NoneApplied
    /\ \A c \in Children : worker[w].applied[c] <= Targets[c]

=============================================================================
