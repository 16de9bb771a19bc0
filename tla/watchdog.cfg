\* An instance and its replacement; two faults anywhere.
SPECIFICATION FairSpec
CONSTANTS
  Instances <- MCInstances
  MinCapacity = 1
  RuntimeSecrets = {aesKey}
  MaxFaults = 2
INVARIANTS TypeOK CountIsHonest StartedPrepared
PROPERTIES ReplacedAfterThree DownIsReplaced
