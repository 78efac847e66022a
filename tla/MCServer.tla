------------------------------ MODULE MCServer ------------------------------
(***************************************************************************)
(* A small instance of Server: the container and an operator migrate with  *)
(* two files, and the environments are those of docker-compose.yml and of  *)
(* a development machine with some variables changed.                      *)
(***************************************************************************)
EXTENDS Server

CONSTANT alice

MCUsers == { alice, "dev-user" }
MCMigrators == { "container", "operator" }
MCFiles == << "0001_auth.sql", "0002_gate.sql" >>

Production ==
  [ node |-> "production", channel |-> "controlled_beta", public |-> "unset", auth |-> "unset",
    password |-> TRUE, database |-> "url", signups |-> FALSE, reviewed |-> FALSE, email |-> TRUE,
    wrong |-> {}, model |-> TRUE, fallback |-> FALSE, xai |-> FALSE, patience |-> "unset" ]

\* Every way to say that nobody has to sign in, and one that somebody has to,
\* without a database.
Local ==
  LET Alone == [ Production EXCEPT !.database = "unset" ]
  IN  { [ Alone EXCEPT !.node = n, !.channel = c, !.public = p, !.auth = a ] :
          n \in { "production", "other" },
          c \in { "unset", "development", "controlled_beta" },
          p \in { "unset", "true", "1", "padded" },
          a \in { "false", "padded" } }
        \cup { [ Alone EXCEPT !.node = "other", !.channel = "development" ] }

\* Wrong, each in its own way; the last one serves those who have a token.
Unsafe ==
  { [ Production EXCEPT !.wrong = { "keys" } ],
    [ Production EXCEPT !.password = FALSE ],
    [ Production EXCEPT !.auth = "false" ],
    [ Production EXCEPT !.signups = TRUE ],
    [ Production EXCEPT !.channel = "public_ga" ],
    [ Production EXCEPT !.channel = "unset", !.wrong = { "secret" } ],
    [ Production EXCEPT !.channel = "unknown", !.reviewed = TRUE ],
    [ Production EXCEPT !.database = "blank" ],
    [ Production EXCEPT !.node = "other", !.channel = "development", !.auth = "false" ] }

\* A controlled beta with one target for the model, and a public release with two
\* that never answer in time.
Safe ==
  { Production,
    [ Production EXCEPT !.channel = "public_ga", !.reviewed = TRUE, !.signups = TRUE,
                        !.fallback = TRUE, !.xai = TRUE, !.patience = "unparsable" ] }

MCEnvironments == Local \cup Unsafe \cup Safe
=============================================================================
