---------------------------- MODULE Configuration ----------------------------
(***************************************************************************)
(* What a server process makes of its environment variables:               *)
(* publicReleaseConfig (src/lib/gate/config.server.ts), the two places that*)
(* read the same variables in their own way, src/lib/auth/server.ts and    *)
(* src/lib/auth/verify.server.ts, the guards of a request that rest on     *)
(* them, and the model provider's targets                                  *)
(* (src/lib/runtime/model-provider.server.ts).                             *)
(*                                                                         *)
(* A variable has the values that some of its readers tell apart:          *)
(* "padded" is "false" or "true" with a blank, which only those who trim   *)
(* recognise, and "1" is a yes to some of them.                            *)
(***************************************************************************)
EXTENDS Sequences

\* The settings that are only looked at by publicReleaseConfig.
OtherSettings == { "secret", "https", "tenant", "keys", "executor", "entity", "effective date",
                   "support", "security", "privacy", "retention" }

Environment ==
  [ node     : { "production", "other" },                                     \* NODE_ENV
    channel  : { "unset", "development", "controlled_beta", "public_ga", "unknown" },
    public   : { "unset", "true", "1", "padded" },               \* HODGEFORM_PUBLIC_RELEASE
    auth     : { "unset", "false", "padded" },                   \* VITE_AUTH_ENABLED
    password : BOOLEAN,                                          \* HODGEFORM_EMAIL_PASSWORD_AUTH
    database : { "url", "blank", "unset" },                      \* DATABASE_URL
    signups  : BOOLEAN,                                          \* HODGEFORM_ALLOW_SIGNUPS
    reviewed : BOOLEAN,                                          \* HODGEFORM_LEGAL_REVIEWED
    email    : BOOLEAN,                                          \* a mail provider and its key
    wrong    : SUBSET OtherSettings,                             \* missing or malformed
    model    : BOOLEAN,                                          \* HODGEFORM_[TEACHER_]MODEL
    fallback : BOOLEAN,                                          \* HODGEFORM_ALLOW_XAI_FALLBACK
    xai      : BOOLEAN,                                          \* XAI_API_KEY
    patience : { "unset", "number", "unparsable" } ]             \* HODGEFORM_MODEL_TIMEOUT_MS

-----------------------------------------------------------------------------
(* publicReleaseConfig                                                     *)

ReleaseChannel(env) ==
  IF env.channel = "unknown" THEN "public_ga"
  ELSE IF env.channel # "unset" THEN env.channel
  ELSE IF env.public \in { "true", "1" } THEN "public_ga"
  ELSE IF env.node = "production" THEN "controlled_beta" ELSE "development"

Enforced(env) == ReleaseChannel(env) # "development"

DatabaseConfigured(env) == env.database = "url"

publicEmailConfigured(env) == env.email

ChannelIssues(env) ==
  { i \in { "unknown channel" } : env.channel = "unknown" }

AuthIssues(env) ==
  { i \in { "authentication is disabled" } : env.auth = "false" }
    \cup { i \in { "email/password auth is disabled" } : ~env.password }
    \cup { i \in { "DATABASE_URL is missing" } : ~DatabaseConfigured(env) }

SignupIssues(env) ==
  { i \in { "beta with signups" } : ReleaseChannel(env) = "controlled_beta" /\ env.signups }
    \cup { i \in { "legal review" } : ReleaseChannel(env) = "public_ga" /\ ~env.reviewed }
    \cup { i \in { "signups without email" } : env.signups /\ ~publicEmailConfigured(env) }

Issues(env) ==
  ChannelIssues(env)
    \cup IF Enforced(env) THEN AuthIssues(env) \cup env.wrong \cup SignupIssues(env) ELSE {}

Ready(env) == Issues(env) = {}

\* server.ts refuses the traffic of the application otherwise, and so does
\* assertPublicReleaseReady.
Serves(env) == ~Enforced(env) \/ Ready(env)

-----------------------------------------------------------------------------
(* Who a request is made by.                                               *)

authConfigured(env) == env.auth = "unset" /\ env.password

\* verify.server.ts has a notion of its own of a public release.
publicRelease(env) == env.public \in { "true", "padded" } \/ env.node = "production"

\* Fault: the guard against sharing one user on a real database is forgotten.
DevUserUnlessPublic(env) == ~authConfigured(env) /\ ~publicRelease(env)

DevUserAllowed(env) ==
  ~authConfigured(env) /\ ~publicRelease(env) /\ ~DatabaseConfigured(env)

\* The headers that assertSameSiteRequest looks at, and a request without them.
Header ==
  [ site : { "unset", "same-origin", "same-site", "cross-site", "none" },
    navigates : BOOLEAN, get : BOOLEAN, embeds : BOOLEAN ]

assertSameSiteRequest(h) ==
  \/ h.site \in { "unset", "same-origin", "none" }
  \/ h.navigates /\ h.get /\ ~h.embeds

\* authMiddleware: the users that a call of a server function may act as, when
\* session are those (at most one) whose session cookie came with it.
ActsAs(env, h, session) ==
  IF ~assertSameSiteRequest(h) THEN {}
  ELSE IF authConfigured(env) THEN session
  ELSE IF DevUserAllowed(env) THEN { "dev-user" } ELSE {}

-----------------------------------------------------------------------------
(* The model provider.                                                     *)

localTarget(env) == IF env.model THEN << "local" >> ELSE << >>

paidFallbackTarget(env) == IF env.fallback /\ env.xai THEN << "paid" >> ELSE << >>

\* roleTargets: in the order they are tried.
Targets(env) == localTarget(env) \o paidFallbackTarget(env)

\* postChat's timer: max(1000, min(NaN, 120000)) is NaN, which fires at once.
MayAnswer(env) == env.patience # "unparsable"
=============================================================================
