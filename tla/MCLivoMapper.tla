---------------------------- MODULE MCLivoMapper ----------------------------
(* LivoMapper in its three modes, with an Avia or Mid-360 or another lidar,  *)
(* and with the map file written every two clouds, or once at the end.       *)
EXTENDS LivoMapper

MCClouds == {<< >>, <<1>>, <<0, 2>>}
MCSettings ==
  LET With(img, imu, lidar, interval) ==
        [img_en |-> img, imu_en |-> imu, lidar_type |-> lidar, pcd_save_interval |-> interval]
  IN  {With(TRUE, TRUE, "AVIA", -1),
       With(FALSE, TRUE, "AVIA", -1), With(FALSE, TRUE, "OTHER", 2),
       With(FALSE, FALSE, "AVIA", 2), With(FALSE, FALSE, "OTHER", -1)}
=============================================================================
