---------------------------- MODULE MCApplication ---------------------------
(***************************************************************************)
(* Instances of Application.                                                *)
(***************************************************************************)
EXTENDS Application

\* Requests that differ in the kind of their id, in what the host supports and
\* in what they ask of the mailbox; the last cannot come after another.
Initialize(kind, background, mailbox) ==
  [id |-> [kind |-> kind, value |-> 1], background |-> background,
   mailbox |-> mailbox]

MCRequests ==
  {Initialize("string", TRUE, "enabled"),
   Initialize("number", FALSE, "enabled"),
   Initialize("number", TRUE, "disabled")}
==============================================================================
