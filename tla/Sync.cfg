SPECIFICATION FairSpec
CONSTANTS
  Handlers = {h1, h2}
  Loops = {l1, l2}
  Chans = {c1, c2}
  Forms <- OnOrOff
  Faults = TRUE
  None = None
INVARIANT NoLoopEscapes
PROPERTIES StoppedLoopsEnd AutoSyncKeepsPushing DisabledMeansSilent
