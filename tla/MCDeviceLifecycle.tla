--------------------------- MODULE MCDeviceLifecycle ---------------------------
(***************************************************************************)
(* Credentials and entries of the portal's form for TLC.                   *)
(***************************************************************************)
EXTENDS DeviceLifecycle

CONSTANTS Elsewhere, U1, U2, P1, P2, Long

\* The first pair, the next one, and one that is too long to be stored.
MCFirst == <<U1, P1>>
MCCreds == {MCFirst, <<U2, P2>>, <<U1, Long>>}

Entry(net, user, pass) == [Factory EXCEPT !.net = net, !.id = TRUE, !.user = user, !.pass = pass]

\* Each pair; another network, the rest left blank; a new user with the old
\* password; a password that is too long; nothing at all.
MCEntries ==
  {Entry(Home, U1, P1), Entry(Home, U2, P2),
   Entry(Elsewhere, NoUser, NoPass), Entry(Home, U2, NoPass), Entry(Home, U1, Long), Factory}
===============================================================================
