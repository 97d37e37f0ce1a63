------------------------- MODULE MessageDispatcher -------------------------
(***************************************************************************)
(* What MessageDispatcher::dispatch and the handlers registered in its     *)
(* constructor decide about one packet.  The decision has no state of its  *)
(* own: it depends on whether the session has registered a nickname and,   *)
(* for a login, on whether the nickname is already held by some session.   *)
(*                                                                         *)
(* A packet is abstracted to what the code tests: the secret prefix, and   *)
(* what is left when the prefix is stripped.                               *)
(*   garbage         not JSON                                              *)
(*   illtyped        JSON that is no object, or whose "type" (in a login,  *)
(*                   whose "nickname") is no string: value() throws        *)
(*   login           a login with a nickname                               *)
(*   nameless_login  a login with an empty or absent nickname              *)
(*   insert          an insert                                             *)
(*   bad_insert      an insert whose "table" is not a string: value()      *)
(*                   throws inside the handler                             *)
(*   keepalive       no handler is registered for this type                *)
(*   other           any other type, or none                               *)
(***************************************************************************)
Body == {"garbage", "illtyped", "login", "nameless_login", "insert",
         "bad_insert", "keepalive", "other"}

Packet == [secret : BOOLEAN, body : Body]

\* Mutant of Refused: the secret is not asked for before the login.
Refused_without_secret(nickname_registered, p) ==
    IF nickname_registered
      THEN p.body = "garbage" \/ (p.body = "keepalive" /\ ~p.secret)
      ELSE p.body \notin {"login", "nameless_login", "illtyped"}

(***************************************************************************)
(* The packets that make dispatch close the session.  Before the login:    *)
(* anything but the secret followed by a login.  (The test of the type     *)
(* throws on an illtyped packet, which then does not close.)  After it:    *)
(* what does not parse, and a keepalive without the secret.                *)
(***************************************************************************)
Refused(nickname_registered, p) ==
    IF nickname_registered
      THEN p.body = "garbage" \/ (p.body = "keepalive" /\ ~p.secret)
      ELSE ~p.secret \/ p.body \notin {"login", "nameless_login", "illtyped"}

(***************************************************************************)
(* The outcome: "close", "login" (the nickname is registered), or the one  *)
(* answer that is posted.  parse_failed is the answer of Session::do_read  *)
(* to an exception that left dispatch.                                     *)
(***************************************************************************)
Answer == [illtyped       |-> "parse_failed",
           bad_insert     |-> "parse_failed",
           nameless_login |-> "nickname_required",
           insert         |-> "insert_ack",
           keepalive      |-> "unknown_type",
           other          |-> "unknown_type"]

Outcome(nickname_registered, in_use, p) ==
    IF Refused(nickname_registered, p) THEN "close"
    ELSE IF p.body # "login"           THEN Answer[p.body]
    ELSE IF in_use                     THEN "nickname_in_use"
    ELSE                                    "login"
=============================================================================
