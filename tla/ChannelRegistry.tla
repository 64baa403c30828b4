--------------------------- MODULE ChannelRegistry ---------------------------
(***************************************************************************)
(* What dtp_poll() and new_data_channel() promise to the rest of the       *)
(* server, without lists or blocks: each pass visits, once, every channel  *)
(* that was there when the former pass ended, and frees exactly those the  *)
(* server has given up; a channel made since waits for the pass after.     *)
(* Module FtpServer refines this one until a channel is freed outside a    *)
(* pass or the program halts: from there nothing is promised.              *)
(***************************************************************************)

CONSTANT Chans

VARIABLES
  todo,     (* the channels the pass has not visited yet                   *)
  later,    (* the visited ones and the new ones: they wait for the next   *)
  given,    (* the channels that may be freed: DTP_FREE                    *)
  polling,  (* a pass is under way                                         *)
  broken    (* nothing is promised any more                                *)

registry == <<todo, later, given, polling, broken>>

Init ==
  /\ todo = {} /\ later = {} /\ given = {}
  /\ ~polling /\ ~broken

(* new_data_channel()                                                      *)
Create ==
  /\ ~polling
  /\ \E c \in Chans \ (todo \union later) : later' = later \union {c}
  /\ UNCHANGED <<todo, given, polling, broken>>

(* handle_data_events() on the end of a transfer                           *)
GiveUp ==
  /\ ~polling
  /\ \E c \in (todo \union later) \ given : given' = given \union {c}
  /\ UNCHANGED <<todo, later, polling, broken>>

StartPass == ~polling /\ polling' /\ UNCHANGED <<todo, later, given, broken>>

(* One turn of the loop in dtp_poll(): the channel is kept, or freed.      *)
Keep(c) == c \notin given /\ later' = later \union {c} /\ UNCHANGED given
Free(c) == c \in given /\ given' = given \ {c} /\ UNCHANGED later

Visit ==
  /\ polling
  /\ \E c \in todo : todo' = todo \ {c} /\ (Keep(c) \/ Free(c))
  /\ UNCHANGED <<polling, broken>>

EndPass ==
  /\ polling /\ ~polling' /\ todo = {}
  /\ todo' = later /\ later' = {}
  /\ UNCHANGED <<given, broken>>

Break == broken'

Next == Create \/ GiveUp \/ StartPass \/ Visit \/ EndPass \/ Break

Spec == Init /\ [][Next]_registry
=============================================================================
