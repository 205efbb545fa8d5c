---------------------------- MODULE MCDeskWriters ----------------------------
(***************************************************************************)
(* DeskWriters on a small instance: one question, a rabbi and the          *)
(* administrator Ora, a request of the dashboard and two mails.            *)
(***************************************************************************)
EXTENDS DeskWriters, TLC

CONSTANTS Levi, Dan, Ora, q1, s1, m1, m2

MailSymmetry == Permutations(Mails)
==============================================================================
