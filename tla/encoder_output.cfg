SPECIFICATION Spec
CONSTANTS
  NoPlane = NoPlane
  LostPlane = LostPlane
  NoExtra = NoExtra
  NoProfile = NoProfile
  NoImage = NoImage
  Absent = Absent
  NoHeader = NoHeader
  NoInfo = NoInfo
  NoColor = NoColor
  p1 = p1
  p2 = p2
  b1 = b1
  s1 = s1
  s2 = s2
  Pictures <- OnePicture
  Planes <- OnePlane
  Names <- OneName
  MaxChannels = 1
  MaxFrames = 2
  Infos <- OutputInfos
  Colors <- OutputColors
  Profiles <- OutputProfiles
  ExtraInfos <- OutputExtras
  SettingsIds <- OneId
  Durations <- OneDuration
  MaxBoxes = 2
  Rooms <- OutputRooms
  Failures <- OutputFailures
INVARIANTS
  NoMixedSettings
PROPERTIES
  ReadsOneFile
