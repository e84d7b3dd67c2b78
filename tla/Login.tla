-------------------------------- MODULE Login --------------------------------
(***************************************************************************)
(* How a client comes to its token (AuthService.GenerateToken) and how     *)
(* long the token is good for (BaseValidator.VerifyToken).  A token        *)
(* carries a copy of the scopes in the user's row; nobody looks at the row *)
(* again, and nothing can take a token back.                               *)
(*                                                                         *)
(* One user, one scope, and one token, the one the client will present;    *)
(* keys, signatures and password hashes are good or bad.                   *)
(***************************************************************************)
EXTENDS Naturals

CONSTANT Lifetime   \* ticks a token is valid for (24 hours)

ASSUME LifetimeAssumption == Lifetime \in Nat \ {0}

\* The column scopes holds a map with or without the scope.  "unusable": there is no
\* such user, or the column holds what cannot be read as a map, like its default '[]'.
Rows == {"granted", "withdrawn", "unusable"}

NoToken == [scope |-> FALSE, age |-> Lifetime]

VARIABLES
  row,    \* the user's row
  login,  \* what the login under way has read from it, or "none"
  token,  \* the token the client holds
  since   \* history: ticks since row or login last granted the scope, up to Lifetime

loginVars == <<row, login, token, since>>

LoginInit ==
  /\ row \in Rows
  /\ login = "none"
  /\ token = NoToken
  /\ since = IF row = "granted" THEN 0 ELSE Lifetime

Granted == "granted" \in {row, login}

\* Time since the scope was last granted begins anew whenever it is granted.
Note == since' = IF Granted \/ Granted' THEN 0 ELSE since

-----------------------------------------------------------------------------
(* Nothing in the repository writes the table of users: an administrator does. *)
UserChanges ==
  /\ row' \in Rows \ {row}
  /\ UNCHANGED <<login, token>> /\ Note

\* GetUserByUsername; a row that is missing or cannot be read refuses the login.
GetUser ==
  /\ login = "none" /\ row # "unusable"
  /\ login' = row
  /\ UNCHANGED <<row, token>> /\ Note

\* The password is wrong, or the client goes on with the token it has.
NoNewToken ==
  /\ login # "none"
  /\ login' = "none"
  /\ UNCHANGED <<row, token>> /\ Note

\* The token gets the scopes read before, and a full life from now.
Issue ==
  /\ login # "none"
  /\ token' = [scope |-> login = "granted", age |-> 0]
  /\ login' = "none"
  /\ UNCHANGED row /\ Note

\* Time passes.
Tick ==
  /\ token.age < Lifetime \/ since < Lifetime
  /\ token' = [token EXCEPT !.age = IF @ < Lifetime THEN @ + 1 ELSE @]
  /\ since' = IF Granted \/ since = Lifetime THEN since ELSE since + 1
  /\ UNCHANGED <<row, login>>

LoginNext == UserChanges \/ GetUser \/ NoNewToken \/ Issue \/ Tick

-----------------------------------------------------------------------------
\* Defect: the time of expiry is not looked at.
VerifyTokenNoExpiry(scope) == token # NoToken /\ scope = token.scope

\* The client's token is accepted and carries the scope, or does not.
VerifyToken(scope) == token.age < Lifetime /\ scope = token.scope

(* When the scope has not been granted for a whole lifetime, no token that  *)
(* works carries it.                                                        *)
NoLateScope == since = Lifetime => ~VerifyToken(TRUE)
=============================================================================
