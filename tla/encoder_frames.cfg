SPECIFICATION Spec
CONSTANTS
  NoPlane = NoPlane
  LostPlane = LostPlane
  NoExtra = NoExtra
  NoProfile = NoProfile
  NoImage = NoImage
  Absent = Absent
  NoHeader = NoHeader
  NoInfo = NoInfo
  NoColor = NoColor
  p1 = p1
  p2 = p2
  b1 = b1
  s1 = s1
  s2 = s2
  Pictures <- TwoPictures
  Planes <- OnePlane
  Names <- OneName
  MaxChannels = 2
  MaxFrames = 2
  Infos <- FrameInfos
  Colors <- FrameColors
  Profiles <- NoSet
  ExtraInfos <- FrameExtras
  SettingsIds <- TwoIds
  Durations <- FrameDurations
  MaxBoxes = 0
  Rooms <- OneRoom
  Failures <- FrameFailures
SYMMETRY NameSymmetry
CHECK_DEADLOCK FALSE
INVARIANTS
  TypeOK
  QueueFollowsCalls
  OutputHoldsSubmission
