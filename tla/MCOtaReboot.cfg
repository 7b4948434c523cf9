\* The restart that follows a successful download.
CONSTANTS
  Versions = {v1, v2, v3}
  NoImage = NoImage
  SelfCheckTicks = 1
  RetryTicks = 1
  MaxRetries = 2
  ConfirmTicks = 2
  BannerTicks = 1
  ConfirmTaps = 3
  MaxTaps = 4
SPECIFICATION SafetySpec
PROPERTY SuccessBootsNewImage
