----------------------------- MODULE MCAccounts -----------------------------
(***************************************************************************)
(* A small instance of Accounts for TLC.                                   *)
(***************************************************************************)
EXTENDS Accounts, TLC

CONSTANTS x, y, p, i, s

\* A local administrator, and an SSO account: without a password and the role, or
\* with both.
McFirstRows == {
    LocalRow(x, p, TRUE),
    SSORow([issuer |-> i, subject |-> s], y),
    [name |-> y, password |-> p, admin |-> TRUE, issuer |-> i, subject |-> s]}

\* Requests and session IDs are interchangeable; no property is about fairness.
McSymmetry == Permutations(Requests) \union Permutations(SessionIds)
=============================================================================
