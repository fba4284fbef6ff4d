------------------------------ MODULE SignIns --------------------------------
(* Sessions, with the limiter every sign-in passes before it looks for an     *)
(* account.                                                                   *)
EXTENDS Sessions, RateLimit

\* The limiter answers every history of calls as it should, those that come before the
\* first sign-in as well as those of later ones, since it starts empty with its process
\* and reads no row.
SignInsAreLimited == clock = 0 => LimiterSound
=============================================================================
