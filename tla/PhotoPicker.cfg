SPECIFICATION Spec
CONSTANTS
  all = all
  folder = folder
  p1 = p1
  p2 = p2
  p3 = p3
  Albums <- MCAlbums
  PhotosOf <- MCPhotosOf
  Capacity = 2
  MaxLoads = 3
  MaxPosted = 3
INVARIANTS
  DrainedShowsSelection
  DrawerMatchesStrip
  ChosenAlbumIsShown
CHECK_DEADLOCK FALSE
