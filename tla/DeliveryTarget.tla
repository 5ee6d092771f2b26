-------------------------- MODULE DeliveryTarget --------------------------
(***************************************************************************)
(* Where an approved repair is delivered (output.ResolveDelivery) and with *)
(* which token (loop.resolveRepoAndToken, DeliveryConfig.ResolveToken).    *)
(* The branch is pushed to a Git remote and the change request is opened   *)
(* through the API of a provider: both are resolved from a configuration   *)
(* that may be empty, the URL of the remote, its default branch, the       *)
(* signal that caused the repair and the environment.  RepairLoop starts   *)
(* from the target; here it is made.                                       *)
(* A repository is the sequence of the segments of its slug: a slash is    *)
(* between two segments, and a leading slash makes the first one empty.    *)
(***************************************************************************)
EXTENDS Integers, Sequences

CONSTANTS Hosts,     \* hosts of remotes
          IsGitHub,  \* the hosts whose name contains "github"
          IsGitLab,  \* the hosts whose name contains "gitlab"
          Slugs,     \* paths of remote URLs, as sequences of segments
          MaxEntries \* bound: configured signals

VARIABLES cfg,     \* the delivery block: [provider, repo, token, base]
          remote,  \* git remote get-url: [found, parsed, host, path]
          head,    \* the default branch of the remote, or "" if unknown
          entries, \* Seq([source, repo, token]): the configured signals
          signal,  \* [source, repo]: the signal; repo is of its payload
          env,     \* the token variables that are set
          target,  \* the target, or Unresolved
          failed   \* the reason of a failure, or "none"

inputs == <<cfg, remote, head, entries, signal, env>>
vars == <<inputs, target, failed>>

Unresolved == [provider |-> "none", repo |-> <<>>, base |-> "", token |-> ""]

(* DeliveryConfig.Validate: a repository has at least two segments, and    *)
(* exactly two with provider github.                                       *)
ValidConfig ==
  {c \in [provider : {"", "github", "gitlab"},
          repo : {<<>>, <<"own", "er">>, <<"gr", "oup", "x">>},
          token : {"", "delivery"}, base : {"", "release"}] :
     c.provider = "github" /\ c.repo # <<>> => Len(c.repo) = 2}

(* What the adapters put into "repo": GitHub its slug, GitLab its project, *)
(* CircleCI a slug with its kind in front, the Git adapter the absolute    *)
(* path of the working copy, the others and the command line nothing.      *)
PayloadRepo ==
  [ci \in {"github-ci", "gitlab-ci", "circleci", "git", "logs", "cli"} |->
     CASE ci = "github-ci" -> <<"o", "r">>
       [] ci = "gitlab-ci" -> <<"o", "r">>
       [] ci = "circleci" -> <<"gh", "o", "r">>
       [] ci = "git" -> <<"", "srv", "repo">>
       [] OTHER -> <<>>]

(* A configured signal has a token only if its adapter asks a service.     *)
Entries ==
  {[source |-> s, repo |-> PayloadRepo[s], token |-> t] :
     s \in {"github-ci", "gitlab-ci", "circleci"}, t \in {"", "own"}}
  \union {[source |-> s, repo |-> <<>>, token |-> ""] : s \in {"git", "logs"}}

Remotes ==
  {[found |-> FALSE, parsed |-> FALSE, host |-> "", path |-> <<>>],
   [found |-> TRUE, parsed |-> FALSE, host |-> "", path |-> <<>>]}
  \union [found : {TRUE}, parsed : {TRUE}, host : Hosts, path : Slugs]

Init ==
  /\ cfg \in ValidConfig
  /\ remote \in Remotes
  /\ head \in {"", "main"}
  /\ entries \in UNION {[1..n -> Entries] : n \in 0..MaxEntries}
  /\ \E s \in {entries[i].source : i \in DOMAIN entries} \union {"cli"} :
       signal = [source |-> s, repo |-> PayloadRepo[s]]
  /\ env \in SUBSET {"GITHUB_TOKEN", "GITLAB_TOKEN"}
  /\ target = Unresolved /\ failed = "none"

(***************************************************************************)
(* ParseRemoteURL and providerForHost.  A URL that has no host, or whose   *)
(* path has no owner, yields neither host nor repository.                  *)
(***************************************************************************)
Parsed == remote.parsed /\ Len(remote.path) >= 2

RemoteRepo == IF Parsed THEN remote.path ELSE <<>>

ProviderForHost(host) ==
  CASE host \in IsGitHub -> "github"
    [] host \in IsGitLab -> "gitlab"
    [] OTHER -> ""

ProviderOfSource(source) ==
  CASE source = "github-ci" -> "github"
    [] source = "gitlab-ci" -> "gitlab"
    [] OTHER -> ""

(* The first that is known.                                               *)
Known(seq, nothing) ==
  LET known == {i \in DOMAIN seq : seq[i] # nothing}
  IN IF known = {} THEN nothing
     ELSE seq[CHOOSE i \in known : \A j \in known : i <= j]

OfRemote == IF Parsed THEN ProviderForHost(remote.host) ELSE ""

(* Mutant: the signal is asked before the remote.                          *)
ProviderBySignal ==
  Known(<<cfg.provider, ProviderOfSource(signal.source), OfRemote>>, "")

(* The configuration wins, then the remote, then the signal.               *)
Provider ==
  Known(<<cfg.provider, OfRemote, ProviderOfSource(signal.source)>>, "")

Repo == Known(<<cfg.repo, RemoteRepo, signal.repo>>, <<>>)

Base == Known(<<cfg.base, head>>, "")

(* A path of the file system, and a name without owner, are no repository. *)
IsSlug(repo) == Len(repo) >= 2 /\ repo[1] # ""

(***************************************************************************)
(* The tokens.  resolveRepoAndToken takes the token of the first signal    *)
(* that is configured with the repository of this one, even if it is       *)
(* empty, and GITHUB_TOKEN when there is none.  A token is named after     *)
(* where it comes from.                                                    *)
(***************************************************************************)
FallbackToken ==
  LET same == {i \in DOMAIN entries : entries[i].repo = signal.repo}
      first == CHOOSE i \in same : \A j \in same : i <= j
  IN CASE same # {} /\ entries[first].token # "" -> entries[first].source
       [] same # {} -> ""
       [] OTHER -> IF "GITHUB_TOKEN" \in env THEN "GITHUB_TOKEN" ELSE ""

VariableOf(provider) ==
  IF provider = "github" THEN "GITHUB_TOKEN" ELSE "GITLAB_TOKEN"

Token ==
  Known(<<cfg.token, FallbackToken,
          IF VariableOf(Provider) \in env THEN VariableOf(Provider) ELSE "">>, "")

(***************************************************************************)
(* ResolveDelivery: the checks in their order, then the target.            *)
(***************************************************************************)
Fail(reason) ==
  /\ failed' = reason
  /\ UNCHANGED <<inputs, target>>

Open == target = Unresolved /\ failed = "none"

NoProvider == Open /\ Provider \notin {"github", "gitlab"} /\ Fail("provider")

HasProvider == Open /\ Provider \in {"github", "gitlab"}

NoRepository == HasProvider /\ ~IsSlug(Repo) /\ Fail("repository")

NotOwnerRepository ==
  /\ HasProvider /\ IsSlug(Repo)
  /\ Provider = "github" /\ Len(Repo) # 2
  /\ Fail("owner/repository")

HasRepository ==
  HasProvider /\ IsSlug(Repo) /\ (Provider = "github" => Len(Repo) = 2)

NoRemote == HasRepository /\ ~remote.found /\ Fail("remote")

NoBase == HasRepository /\ remote.found /\ Base = "" /\ Fail("base")

Resolve ==
  /\ HasRepository /\ remote.found /\ Base # ""
  /\ target' = [provider |-> Provider, repo |-> Repo, base |-> Base, token |-> Token]
  /\ UNCHANGED <<inputs, failed>>

Next == \/ NoProvider \/ NoRepository \/ NotOwnerRepository
        \/ NoRemote \/ NoBase \/ Resolve

Spec == Init /\ [][Next]_vars

---------------------------------------------------------------------------
Resolved == target # Unresolved

(* Types; a target has a provider Sidecar can talk to and a repository     *)
(* that is one: never the path of a working copy, and two segments on      *)
(* GitHub.                                                                 *)
TypeOK ==
  /\ cfg \in ValidConfig /\ remote \in Remotes /\ head \in {"", "main"}
  /\ failed \in {"none", "provider", "repository", "owner/repository",
                 "remote", "base"}
  /\ failed = "none" \/ ~Resolved
  /\ Resolved =>
       /\ target.provider \in {"github", "gitlab"}
       /\ Len(target.repo) >= 2 /\ target.repo[1] # ""
       /\ target.provider = "github" => Len(target.repo) = 2

(* The request is opened where the branch is: unless the configuration     *)
(* says otherwise, provider and repository are those of the remote that    *)
(* the branch is pushed to, whichever adapter sent the signal.             *)
RequestMeetsBranch ==
  Resolved /\ Parsed =>
    /\ cfg.repo = <<>> => target.repo = remote.path
    /\ cfg.provider = "" /\ ProviderForHost(remote.host) # ""
         => target.provider = ProviderForHost(remote.host)

(* Nothing is assumed: without a configured or default branch, or with     *)
(* neither configuration, remote nor CI signal to name the provider, the   *)
(* delivery fails.                                                         *)
NothingIsAssumed ==
  Resolved =>
    /\ target.base \in {cfg.base, head}
    /\ \/ cfg.provider # ""
       \/ Parsed /\ ProviderForHost(remote.host) # ""
       \/ signal.source \in {"github-ci", "gitlab-ci"}

(* What the design says of the token: without a configured one it is that  *)
(* of the provider's variable.  A token of the signals, which keeps an old *)
(* configuration working, is let pass here if it is for that provider.     *)
TokenIsOfProvider ==
  Resolved /\ cfg.token = "" =>
    \/ target.token \in {"", VariableOf(target.provider)}
    \/ ProviderOfSource(target.token) = target.provider
===========================================================================
