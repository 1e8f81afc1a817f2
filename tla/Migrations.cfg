\* Any revision, used by one player, up and down.
SPECIFICATION Spec
CONSTANTS
  LastRevision <- HeadRevision
  InitialContent <- FirstContent
  UpgradeScripts <- RunUpgrades
  DowngradeScript <- RunDowngrade
  PlayerWrites <- Requests
  Processes = {p1, p2, p3}
  Migrating = {p1, p2}
  Users = {"u1"}
  MaxPlays = 2
  MaxStarts = 2
INVARIANT TypeOK
INVARIANT ServesOnlyHead
INVARIANT NoUpgradeBehindServing
INVARIANT SchemaByRevision
INVARIANT CatalogueByRevision
INVARIANT HeadMatchesModels
INVARIANT RefusalsAreKnown
INVARIANT StarterCrew
INVARIANT ScriptsFit
INVARIANT ContentFits
PROPERTY HistoryKept
PROPERTY StartUpEnds
CHECK_DEADLOCK FALSE
